---- MODULE Spec2Model ----
(***************************************************************************)
(* Model of the order / shipping aggregates (src/src/domain) and of the    *)
(* result-composition layer (src/src/shared/types.ts).                      *)
(*                                                                         *)
(* Representation choices                                                  *)
(*  - Money is an integer number of half cents (200 units = 1.00), so that *)
(*    the rounding to two decimals done by PriceSchema is not the identity.*)
(*  - Dates are integer readings of the clock `now`.                       *)
(*  - Identifiers (uuid v4) are drawn from small sets.                     *)
(*  - Error messages are symbolic tags; the source text of each message is *)
(*    given where the tag is produced.                                     *)
(***************************************************************************)
EXTENDS Integers, Sequences, FiniteSets, TLC

(***************************************************************************)
(* Bounds of the model                                                     *)
(***************************************************************************)
NumProducts == 2
MaxClock == 1
NumSteps == 3
MaxCommandLines == 3
MaxInvocations == 2

(***************************************************************************)
(* Program constants                                                       *)
(***************************************************************************)
\* 999,999.99 in half cents (PriceSchema .max)
MaxPrice == 199999998
\* productName: z.string().min(1).max(100)
MaxNameLen == 100
\* AddressSchema: street max(100); city, state, country max(50)
MaxStreetLen == 100
MaxCityLen == 50
MaxStateLen == 50
MaxCountryLen == 50
\* postalCode: /^\d{3}-\d{4}$/
PostalHeadLen == 3
PostalTailLen == 4
\* calculateEstimatedDeliveryDate: days added per method
StandardDays == 7
ExpressDays == 3
OvernightDays == 1

VARIABLES
    now,        \* the clock read by `new Date()`
    order,      \* the order snapshot held by the caller
    orderOp,    \* the last order function called
    orderArg,   \* the snapshot passed to that call
    orderLine,  \* the line passed to that call (addOrderLine only)
    orderRes,   \* the Result it returned
    shipping,   \* the shipment snapshot held by the caller
    shipOp,     \* the last shipping function called
    shipArg,    \* the snapshot passed to that call
    shipRes,    \* the Result it returned
    chainTrace, \* what the task of a pipeline settled to, before and after each chain stage
    chainCalls, \* how often the step function of each chain stage was invoked
    orders,           \* InMemoryOrderRepository.orders: order id -> snapshot
    ordersByCustomer, \* InMemoryOrderRepository.ordersByCustomer: customer id -> order ids
    shippings,        \* InMemoryShippingRepository.shippings: shipment id -> snapshot
    shippingsByOrder, \* InMemoryShippingRepository.shippingsByOrder: order id -> shipment id
    published,        \* the events handed to eventBus.publish, in order
    procs,            \* the handler invocations in progress, one per slot
    started,          \* how many handler invocations have been started
    fnOp,             \* the last function called on its own
    fnArg,            \* the arguments of that call
    fnRes             \* what it returned

orderVars == <<order, orderOp, orderArg, orderLine, orderRes>>
shipVars == <<shipping, shipOp, shipArg, shipRes>>
chainVars == <<chainTrace, chainCalls>>
repoVars == <<orders, ordersByCustomer, shippings, shippingsByOrder, published>>
appVars == <<repoVars, procs, started>>
callVars == <<fnOp, fnArg, fnRes>>
vars == <<now, orderVars, shipVars, chainVars, appVars, callVars>>

(***************************************************************************)
(* Result<T>                                                               *)
(***************************************************************************)
Ok(v) == [success |-> TRUE, value |-> v]
Err(e) == [success |-> FALSE, error |-> e]

(***************************************************************************)
(* Either / TaskEither (shared/types.ts). A task is modelled by what its   *)
(* promise settles to: a left, a right, or a rejection.                    *)
(***************************************************************************)
left(e) == [type |-> "left", value |-> e]
right(a) == [type |-> "right", value |-> a]
rejected(r) == [type |-> "rejected", value |-> r]

\* faulty variant: the step function is invoked whatever the task resolved to
chainAlwaysInvokes(either, fTask) == [invoked |-> TRUE, task |-> fTask]

\* taskEither.chain(f)(task), as the callback of task.then: `either` is what
\* task resolved to, fTask what f(either.value) settles to if it is invoked
chain(either, fTask) ==
    IF either.type = "right"
    THEN [invoked |-> TRUE, task |-> fTask]
    ELSE [invoked |-> FALSE, task |-> either]

\* faulty variant: f is applied to the value of either side
mapBothSides(either, f) == [invoked |-> TRUE, task |-> right(f[either.value])]

\* taskEither.map(f)(task), once task has resolved to either: the either the
\* mapped task resolves to, and whether f was invoked on the way
map(either, f) ==
    IF either.type = "right"
    THEN [invoked |-> TRUE, task |-> right(f[either.value])]
    ELSE [invoked |-> FALSE, task |-> either]

(***************************************************************************)
(* Value objects (domain/order/types.ts)                                   *)
(***************************************************************************)
\* Math.round(price * 100) / 100 on half-cent amounts: round half up
Round2(p) == ((p + 1) \div 2) * 2

\* faulty variant: the rounding transform is missing
PriceSchemaParseUnrounded(p) ==
    IF p < 0 THEN Err("price_negative")
    ELSE IF p > MaxPrice THEN Err("price_too_large")
    ELSE [success |-> TRUE, data |-> p]

\* PriceSchema.safeParse: nonnegative, then max, then the rounding transform
PriceSchemaParse(p) ==
    IF p < 0 THEN Err("price_negative")            \* "価格は負の値にできません"
    ELSE IF p > MaxPrice THEN Err("price_too_large") \* "価格は999,999.99を超える..."
    ELSE [success |-> TRUE, data |-> Round2(p)]

createPrice(value) ==
    LET result == PriceSchemaParse(value)
    IN  IF ~result.success THEN Err(result.error) ELSE Ok(result.data)

(***************************************************************************)
(* Inputs                                                                  *)
(***************************************************************************)
Products == 1..NumProducts
OrderIds == {"o1"}
CustomerIds == {"c1"}
MaxQuantity == 9999

\* a number handed to createQuantity is whole + tenths / 10
\* faulty variant: .nonnegative() in place of .positive()
QuantitySchemaParseNonnegative(q) ==
    IF q.tenths # 0 THEN Err("quantity_not_integer")
    ELSE IF q.whole < 0 THEN Err("quantity_not_positive")
    ELSE IF q.whole > MaxQuantity THEN Err("quantity_too_large")
    ELSE [success |-> TRUE, data |-> q.whole]

\* QuantitySchema.safeParse: int, then positive, then max; the first failed
\* check gives errors[0]
QuantitySchemaParse(q) ==
    IF q.tenths # 0 THEN Err("quantity_not_integer")
    ELSE IF q.whole <= 0 THEN Err("quantity_not_positive")
    ELSE IF q.whole > MaxQuantity THEN Err("quantity_too_large")
    ELSE [success |-> TRUE, data |-> q.whole]

createQuantity(value) ==
    LET result == QuantitySchemaParse(value)
    IN  IF ~result.success THEN Err(result.error) ELSE Ok(result.data)

\* raw numbers handed to createPrice: -1.00, 10.005, 500000.00
PriceInputs == {-200, 2001, 100000000}
Prices == {createPrice(p).value : p \in {q \in PriceInputs : createPrice(q).success}}
Quantities == {1, 2}
ProductNames == {"", "Widget"}
OrderLines ==
    [productId : Products, productName : ProductNames,
     unitPrice : Prices, quantity : Quantities]

(***************************************************************************)
(* Aggregate validator (domain/order/types.ts)                             *)
(***************************************************************************)
OrderStatusTags == {"draft", "placed", "paid", "cancelled"}

\* the payload each tag of OrderStatusSchema requires
OrderStatusFields(tag) ==
    CASE tag = "draft" -> {"type"}
      [] tag = "placed" -> {"type", "placedAt"}
      [] tag = "paid" -> {"type", "paidAt"}
      [] tag = "cancelled" -> {"type", "cancelledAt", "reason"}

\* z.discriminatedUnion("type", ...): the tag selects the object schema; a
\* missing required key is an error, unknown keys are stripped
OrderStatusSchemaParse(s) ==
    IF "type" \notin DOMAIN s \/ s.type \notin OrderStatusTags
    THEN Err("invalid_discriminator")
    ELSE IF ~(OrderStatusFields(s.type) \subseteq DOMAIN s)
    THEN Err("required")
    ELSE [success |-> TRUE, data |-> [f \in OrderStatusFields(s.type) |-> s[f]]]

OrderLineSchemaValid(l) ==
    Len(l.productName) >= 1 /\ Len(l.productName) <= MaxNameLen

\* OrderSchema.parse: lines are checked before status (key order of the schema)
OrderSchemaParse(o) ==
    IF \E i \in 1..Len(o.lines) : ~OrderLineSchemaValid(o.lines[i])
    THEN Err("invalid_line")
    ELSE LET st == OrderStatusSchemaParse(o.status)
         IN  IF ~st.success THEN Err(st.error)
             ELSE [success |-> TRUE, data |-> [o EXCEPT !.status = st.data]]

(***************************************************************************)
(* State-transition functions (domain/order/functions.ts)                  *)
(***************************************************************************)
RECURSIVE SumLines(_)
\* lines.reduce((sum, line) => sum + line.unitPrice * line.quantity, 0)
SumLines(lines) ==
    IF lines = <<>> THEN 0
    ELSE SumLines(SubSeq(lines, 1, Len(lines) - 1))
         + lines[Len(lines)].unitPrice * lines[Len(lines)].quantity

\* faulty variant: the quantity is left out of the sum
calculateTotalAmountNoQuantity(lines) ==
    LET SumPrices[n \in 0..Len(lines)] ==
            IF n = 0 THEN 0 ELSE SumPrices[n - 1] + lines[n].unitPrice
        priceResult == createPrice(SumPrices[Len(lines)])
    IN  IF ~priceResult.success
        THEN [threw |-> TRUE, error |-> priceResult.error]
        ELSE [threw |-> FALSE, value |-> priceResult.value]

\* faulty variant: the sum is returned without passing through createPrice
calculateTotalAmountUnchecked(lines) == [threw |-> FALSE, value |-> SumLines(lines)]

\* throws Error(priceResult.error) when the total is no Price
calculateTotalAmount(lines) ==
    LET priceResult == createPrice(SumLines(lines))
    IN  IF ~priceResult.success
        THEN [threw |-> TRUE, error |-> priceResult.error]
        ELSE [threw |-> FALSE, value |-> priceResult.value]

\* faulty variant: the generated id is stored as the customer
createOrderForId(id, customerId, t) ==
    OrderSchemaParse(
        [id |-> id, customerId |-> id, lines |-> <<>>,
         status |-> [type |-> "draft"], totalAmount |-> 0,
         createdAt |-> t, updatedAt |-> t]).data

createOrder(id, customerId, t) ==
    OrderSchemaParse(
        [id |-> id, customerId |-> customerId, lines |-> <<>>,
         status |-> [type |-> "draft"], totalAmount |-> 0,
         createdAt |-> t, updatedAt |-> t]).data

HasProduct(lines, productId) ==
    \E i \in 1..Len(lines) : lines[i].productId = productId

\* faulty variant: the new snapshot is returned without re-validation
appendLineUnvalidated(o, line, t) ==
    LET newLines == Append(o.lines, line)
        total == calculateTotalAmount(newLines)
    IN  IF total.threw
        THEN Err("unknown_update_error")
        ELSE Ok([o EXCEPT !.lines = newLines,
                          !.totalAmount = total.value,
                          !.updatedAt = t])

\* the try block of addOrderLine: append, recompute the total, re-validate
appendLine(o, line, t) ==
    LET newLines == Append(o.lines, line)
        total == calculateTotalAmount(newLines)
    IN  IF total.threw
        THEN Err("unknown_update_error") \* "注文の更新中に不明なエラーが発生しました"
        ELSE LET parsed == OrderSchemaParse(
                     [o EXCEPT !.lines = newLines,
                               !.totalAmount = total.value,
                               !.updatedAt = t])
             IN  IF parsed.success THEN Ok(parsed.data) ELSE Err(parsed.error)

\* faulty variant: placed orders accept lines too
addOrderLineOnPlaced(o, line, t) ==
    IF o.status.type \notin {"draft", "placed"}
    THEN Err("add_line_requires_draft")
    ELSE IF HasProduct(o.lines, line.productId)
    THEN Err("duplicate_product")
    ELSE appendLine(o, line, t)

\* faulty variant: the duplicate-product check is missing
addOrderLineNoDuplicateCheck(o, line, t) ==
    IF o.status.type # "draft"
    THEN Err("add_line_requires_draft")
    ELSE appendLine(o, line, t)

\* faulty variant: the duplicate-product check comes before the status check
addOrderLineDuplicateFirst(o, line, t) ==
    IF HasProduct(o.lines, line.productId)
    THEN Err("duplicate_product")
    ELSE IF o.status.type # "draft"
    THEN Err("add_line_requires_draft")
    ELSE appendLine(o, line, t)

addOrderLine(o, line, t) ==
    IF o.status.type # "draft"
    THEN Err("add_line_requires_draft")     \* "下書き状態の注文のみに明細を追加できます"
    ELSE IF HasProduct(o.lines, line.productId)
    THEN Err("duplicate_product")           \* "商品 ... は既に注文に含まれています"
    ELSE appendLine(o, line, t)

\* faulty variant: the creation time is stamped again
withStatusRestamped(o, status, t) ==
    LET parsed == OrderSchemaParse(
            [o EXCEPT !.status = status, !.createdAt = t, !.updatedAt = t])
    IN  IF parsed.success THEN Ok(parsed.data) ELSE Err(parsed.error)

\* the status change shared by placeOrder and markAsPaid: re-validate
withStatus(o, status, t) ==
    LET parsed == OrderSchemaParse([o EXCEPT !.status = status, !.updatedAt = t])
    IN  IF parsed.success THEN Ok(parsed.data) ELSE Err(parsed.error)

\* faulty variant: the check for an empty order is missing
placeOrderAllowsEmpty(o, t) ==
    IF o.status.type # "draft"
    THEN Err("place_requires_draft")
    ELSE withStatus(o, [type |-> "placed", placedAt |-> t], t)

\* faulty variant: an empty order is cancelled, not refused
placeOrderCancelsEmpty(o, t) ==
    IF o.status.type # "draft"
    THEN Err("place_requires_draft")
    ELSE IF Len(o.lines) = 0
    THEN withStatus(o, [type |-> "cancelled", cancelledAt |-> t, reason |-> "empty"], t)
    ELSE withStatus(o, [type |-> "placed", placedAt |-> t], t)

placeOrder(o, t) ==
    IF o.status.type # "draft"
    THEN Err("place_requires_draft")        \* "下書き状態の注文のみ確定できます"
    ELSE IF Len(o.lines) = 0
    THEN Err("place_requires_lines")        \* "明細が空の注文は確定できません"
    ELSE withStatus(o, [type |-> "placed", placedAt |-> t], t)

\* faulty variant: the paid snapshot starts from a total of 0
markAsPaidClearsTotal(o, t) ==
    IF o.status.type # "placed"
    THEN Err("pay_requires_placed")
    ELSE withStatus([o EXCEPT !.totalAmount = 0], [type |-> "paid", paidAt |-> t], t)

\* faulty variant: only an order that is already paid is refused
markAsPaidUnlessPaid(o, t) ==
    IF o.status.type = "paid"
    THEN Err("pay_requires_placed")
    ELSE withStatus(o, [type |-> "paid", paidAt |-> t], t)

\* faulty variant: a paid order can be paid again
markAsPaidAgain(o, t) ==
    IF o.status.type \notin {"placed", "paid"}
    THEN Err("pay_requires_placed")
    ELSE withStatus(o, [type |-> "paid", paidAt |-> t], t)

markAsPaid(o, t) ==
    IF o.status.type # "placed"
    THEN Err("pay_requires_placed")         \* "確定済みの注文のみ支払い済みにできます"
    ELSE withStatus(o, [type |-> "paid", paidAt |-> t], t)

(***************************************************************************)
(* Place-order handler, step 2 (application/placeOrderCommand.ts): a line  *)
(* that addOrderLine refuses ends the fold with this left                  *)
(***************************************************************************)
lineFailure(result) ==
    left([type |-> "business_rule_violation", message |-> result.error])

(***************************************************************************)
(* Shipping: value objects and aggregate validator (domain/shipping/types) *)
(***************************************************************************)
Digits == {"0", "1", "2", "3", "4", "5", "6", "7", "8", "9"}

\* /^\d{3}-\d{4}$/ on the sequence of characters of the postal code
PostalCodeMatches(pc) ==
    /\ Len(pc) = PostalHeadLen + 1 + PostalTailLen
    /\ \A i \in 1..PostalHeadLen : pc[i] \in Digits
    /\ pc[PostalHeadLen + 1] = "-"
    /\ \A i \in (PostalHeadLen + 2)..Len(pc) : pc[i] \in Digits

AddressSchemaParse(a) ==
    IF Len(a.street) < 1 \/ Len(a.street) > MaxStreetLen THEN Err("street_length")
    ELSE IF Len(a.city) < 1 \/ Len(a.city) > MaxCityLen THEN Err("city_length")
    ELSE IF Len(a.state) < 1 \/ Len(a.state) > MaxStateLen THEN Err("state_length")
    ELSE IF ~PostalCodeMatches(a.postalCode)
    THEN Err("postal_code_format")     \* "郵便番号は000-0000の形式でなければなりません"
    ELSE IF Len(a.country) < 1 \/ Len(a.country) > MaxCountryLen
    THEN Err("country_length")
    ELSE [success |-> TRUE, data |-> a]

ShippingMethods == {"standard", "express", "overnight"}

ShippingStatusTags == {"pending", "preparing", "shipped", "delivered", "failed"}

\* the keys of the object schema of each tag of ShippingStatusSchema
ShippingStatusFields(tag) ==
    CASE tag = "pending" -> {"type"}
      [] tag = "preparing" -> {"type"}
      [] tag = "shipped" -> {"type", "shippedAt", "trackingNumber"}
      [] tag = "delivered" -> {"type", "deliveredAt"}
      [] tag = "failed" -> {"type", "failedAt", "reason"}

\* the keys a missing value is an error for: trackingNumber is z.custom
\* without a check, which accepts undefined as well
ShippingStatusRequired(tag) == ShippingStatusFields(tag) \ {"trackingNumber"}

\* z.discriminatedUnion("type", ...): a missing required key is an error,
\* unknown keys are stripped
ShippingStatusSchemaParse(s) ==
    IF "type" \notin DOMAIN s \/ s.type \notin ShippingStatusTags
    THEN Err("invalid_discriminator")
    ELSE IF ~(ShippingStatusRequired(s.type) \subseteq DOMAIN s)
    THEN Err("required")
    ELSE [success |-> TRUE,
          data |-> [f \in ShippingStatusFields(s.type) \cap DOMAIN s |-> s[f]]]

\* ShippingSchema.safeParse: shippingAddress, method, status in key order
ShippingSchemaParse(s) ==
    LET ad == AddressSchemaParse(s.shippingAddress)
        st == ShippingStatusSchemaParse(s.status)
    IN  IF ~ad.success THEN Err(ad.error)
        ELSE IF s.method \notin ShippingMethods THEN Err("invalid_enum_value")
        ELSE IF ~st.success THEN Err(st.error)
        ELSE [success |-> TRUE, data |-> [s EXCEPT !.status = st.data]]

(***************************************************************************)
(* Shipping inputs                                                         *)
(***************************************************************************)
ShippingIds == {"s1"}
TrackingNumbers == {"JP000000001", "JP999999999"}
Addresses ==
    {[street |-> "1-1-1", city |-> "Chiyoda", state |-> "Tokyo",
      postalCode |-> <<"1", "0", "0", "-", "0", "0", "0", "1">>,
      country |-> "Japan"]}

(***************************************************************************)
(* State-transition functions (domain/shipping/functions.ts)               *)
(***************************************************************************)
\* faulty variant: the cases of the switch fall through (no break)
calculateEstimatedDeliveryDateFallsThrough(method, from) ==
    CASE method = "standard" -> from + StandardDays + ExpressDays + OvernightDays
      [] method = "express" -> from + ExpressDays + OvernightDays
      [] method = "overnight" -> from + OvernightDays
      [] OTHER -> from

\* date.setDate(date.getDate() + n); the clock counts days
calculateEstimatedDeliveryDate(method, from) ==
    CASE method = "standard" -> from + StandardDays
      [] method = "express" -> from + ExpressDays
      [] method = "overnight" -> from + OvernightDays
      [] OTHER -> from

\* faulty variant: the method of the command is dropped
createShippingStandardOnly(id, orderId, shippingAddress, method, t) ==
    LET result == ShippingSchemaParse(
            [id |-> id, orderId |-> orderId,
             shippingAddress |-> shippingAddress, method |-> "standard",
             status |-> [type |-> "pending"],
             estimatedDeliveryDate |-> calculateEstimatedDeliveryDate("standard", t),
             createdAt |-> t, updatedAt |-> t])
    IN  IF ~result.success THEN [threw |-> TRUE, error |-> result.error]
        ELSE [threw |-> FALSE, value |-> result.data]

\* throws when the snapshot does not validate
createShipping(id, orderId, shippingAddress, method, t) ==
    LET result == ShippingSchemaParse(
            [id |-> id, orderId |-> orderId,
             shippingAddress |-> shippingAddress, method |-> method,
             status |-> [type |-> "pending"],
             estimatedDeliveryDate |-> calculateEstimatedDeliveryDate(method, t),
             createdAt |-> t, updatedAt |-> t])
    IN  IF ~result.success THEN [threw |-> TRUE, error |-> result.error]
        ELSE [threw |-> FALSE, value |-> result.data]

\* the status change shared by the three transitions: re-validate
shippingWithStatus(s, status, t) ==
    LET result == ShippingSchemaParse([s EXCEPT !.status = status, !.updatedAt = t])
    IN  IF ~result.success THEN Err(result.error) ELSE Ok(result.data)

\* faulty variant: the status check of startPreparation is missing
startPreparationUnchecked(s, t) ==
    shippingWithStatus(s, [type |-> "preparing"], t)

startPreparation(s, t) ==
    IF s.status.type # "pending"
    THEN Err("prepare_requires_pending")   \* "保留中の配送のみ準備を開始できます"
    ELSE shippingWithStatus(s, [type |-> "preparing"], t)

\* faulty variant: a pending shipment can be shipped
shipOrderFromPending(s, t, trackingNumber) ==
    IF s.status.type \notin {"pending", "preparing"}
    THEN Err("ship_requires_preparing")
    ELSE shippingWithStatus(s, [type |-> "shipped", shippedAt |-> t,
                                trackingNumber |-> trackingNumber], t)

\* faulty variant: the shipped status carries no tracking number
shipOrderUntracked(s, t, trackingNumber) ==
    IF s.status.type # "preparing"
    THEN Err("ship_requires_preparing")
    ELSE shippingWithStatus(s, [type |-> "shipped", shippedAt |-> t], t)

shipOrder(s, t, trackingNumber) ==
    IF s.status.type # "preparing"
    THEN Err("ship_requires_preparing")    \* "準備中の配送のみ発送できます"
    ELSE shippingWithStatus(s, [type |-> "shipped", shippedAt |-> t,
                                trackingNumber |-> trackingNumber], t)

\* faulty variant: a delivered shipment can be delivered again
deliverShipmentAgain(s, t) ==
    IF s.status.type \notin {"shipped", "delivered"}
    THEN Err("deliver_requires_shipped")
    ELSE shippingWithStatus(s, [type |-> "delivered", deliveredAt |-> t], t)

deliverShipment(s, t) ==
    IF s.status.type # "shipped"
    THEN Err("deliver_requires_shipped")   \* "発送済みの配送のみ配達できます"
    ELSE shippingWithStatus(s, [type |-> "delivered", deliveredAt |-> t], t)

(***************************************************************************)
(* Order lifecycle: a caller holds the latest snapshot and feeds it to the *)
(* next call                                                               *)
(***************************************************************************)
NoLine == [productId |-> 0, productName |-> "", unitPrice |-> 0, quantity |-> 0]

FreshOrders == {createOrder(id, c, 0) : id \in OrderIds, c \in CustomerIds}

StartWithOrder(o, op) ==
    /\ order = o
    /\ orderOp = op
    /\ orderArg = o
    /\ orderLine = NoLine
    /\ orderRes = Ok(o)

InitOrder == \E o \in FreshOrders : StartWithOrder(o, "createOrder")

CallOrder(op, line, r) ==
    /\ orderOp' = op
    /\ orderArg' = order
    /\ orderLine' = line
    /\ orderRes' = r
    /\ order' = IF r.success THEN r.value ELSE order

AddOrderLine ==
    /\ \E line \in OrderLines :
          CallOrder("addOrderLine", line, addOrderLine(order, line, now))
    /\ UNCHANGED <<now, shipVars, chainVars, appVars, callVars>>

PlaceOrder ==
    /\ CallOrder("placeOrder", NoLine, placeOrder(order, now))
    /\ UNCHANGED <<now, shipVars, chainVars, appVars, callVars>>

MarkAsPaid ==
    /\ CallOrder("markAsPaid", NoLine, markAsPaid(order, now))
    /\ UNCHANGED <<now, shipVars, chainVars, appVars, callVars>>

Tick ==
    /\ now < MaxClock
    /\ now' = now + 1
    /\ UNCHANGED <<orderVars, shipVars, chainVars, appVars, callVars>>

(***************************************************************************)
(* Shipment lifecycle                                                      *)
(***************************************************************************)
FreshShippings ==
    {createShipping(id, o, a, m, 0).value :
        <<id, o, a, m>> \in
            {x \in ShippingIds \X OrderIds \X Addresses \X ShippingMethods :
                ~createShipping(x[1], x[2], x[3], x[4], 0).threw}}

StartWithShipping(s, op) ==
    /\ shipping = s
    /\ shipOp = op
    /\ shipArg = s
    /\ shipRes = Ok(s)

InitShipping == \E s \in FreshShippings : StartWithShipping(s, "createShipping")

CallShipping(op, r) ==
    /\ shipOp' = op
    /\ shipArg' = shipping
    /\ shipRes' = r
    /\ shipping' = IF r.success THEN r.value ELSE shipping

StartPreparation ==
    /\ CallShipping("startPreparation", startPreparation(shipping, now))
    /\ UNCHANGED <<now, orderVars, chainVars, appVars, callVars>>

ShipOrder ==
    /\ \E tn \in TrackingNumbers :
          CallShipping("shipOrder", shipOrder(shipping, now, tn))
    /\ UNCHANGED <<now, orderVars, chainVars, appVars, callVars>>

DeliverShipment ==
    /\ CallShipping("deliverShipment", deliverShipment(shipping, now))
    /\ UNCHANGED <<now, orderVars, chainVars, appVars, callVars>>

(***************************************************************************)
(* Snapshots of any shape the validators accept, as inputs of single calls *)
(***************************************************************************)
AnyOrderStatuses ==
    {[type |-> "draft"], [type |-> "placed", placedAt |-> 0],
     [type |-> "paid", paidAt |-> 0],
     [type |-> "cancelled", cancelledAt |-> 0, reason |-> "customer"]}

AnyLineSeqs ==
    {<<>>} \cup {<<l>> : l \in {x \in OrderLines : OrderLineSchemaValid(x)}}

AnyTotals == {0, createPrice(2001).value}

AnyOrders ==
    {o \in [id : OrderIds, customerId : CustomerIds, lines : AnyLineSeqs,
            status : AnyOrderStatuses, totalAmount : AnyTotals,
            createdAt : {0}, updatedAt : {0}] :
        OrderSchemaParse(o).success}

AnyShippingStatuses ==
    {[type |-> "pending"], [type |-> "preparing"],
     [type |-> "delivered", deliveredAt |-> 0],
     [type |-> "failed", failedAt |-> 0, reason |-> "lost"]}
    \cup {[type |-> "shipped", shippedAt |-> 0, trackingNumber |-> tn] :
            tn \in TrackingNumbers}
    \cup {[type |-> "shipped", shippedAt |-> 0]}

AnyShippings ==
    {s \in [id : ShippingIds, orderId : OrderIds, shippingAddress : Addresses,
            method : ShippingMethods, status : AnyShippingStatuses,
            estimatedDeliveryDate : {OvernightDays, ExpressDays, StandardDays},
            createdAt : {0}, updatedAt : {0}] :
        /\ ShippingSchemaParse(s).success
        /\ s.estimatedDeliveryDate = calculateEstimatedDeliveryDate(s.method, 0)}

\* the snapshots held while the other aggregate is exercised
IdleOrder ==
    CHOOSE o \in AnyOrders :
        o.status.type = "paid" /\ o.lines = <<>> /\ o.totalAmount = 0
IdleShipping ==
    CHOOSE s \in AnyShippings :
        s.status.type = "delivered" /\ s.method = "standard"

(***************************************************************************)
(* A pipeline  pipe(task, chain(f1), ..., chain(fN))  with arbitrary step  *)
(* functions: each fk either resolves to a right, resolves to a left that  *)
(* names the step, or rejects                                              *)
(***************************************************************************)
ChainValues == {0, 1, 2}
Stages == 1..NumSteps

StepOutcomes(k) ==
    {right(v) : v \in ChainValues} \cup {left(k), rejected(k)}

InitChain ==
    /\ chainTrace \in {<<e>> : e \in {right(v) : v \in ChainValues} \cup {left(0)}}
    /\ chainCalls = [k \in Stages |-> 0]

IdleChain ==
    /\ chainTrace = <<left(0)>>
    /\ chainCalls = [k \in Stages |-> 0]

\* the then-callback of stage k runs on the value the previous task resolved to
ChainStep ==
    /\ Len(chainTrace) <= NumSteps
    /\ chainTrace[Len(chainTrace)].type # "rejected"
    /\ LET k == Len(chainTrace)
       IN  \E fTask \in StepOutcomes(k) :
              LET c == chain(chainTrace[k], fTask)
              IN  /\ chainTrace' = Append(chainTrace, c.task)
                  /\ chainCalls' =
                        [chainCalls EXCEPT ![k] = IF c.invoked THEN @ + 1 ELSE @]
    /\ UNCHANGED <<now, orderVars, shipVars, appVars, callVars>>

\* a rejected task skips the then-callback and the rejection is passed on
ChainSkip ==
    /\ Len(chainTrace) <= NumSteps
    /\ chainTrace[Len(chainTrace)].type = "rejected"
    /\ chainTrace' = Append(chainTrace, chainTrace[Len(chainTrace)])
    /\ UNCHANGED <<now, orderVars, shipVars, chainCalls, appVars, callVars>>

(***************************************************************************)
(* The application layer at rest: empty repositories, no event published,  *)
(* no handler invoked                                                      *)
(***************************************************************************)
Slots == {1, 2}
NoCommand == [lines |-> <<>>]
NoTask == [type |-> "none", value |-> 0]
NoSettlement == [ok |-> TRUE, value |-> 0]

\* a slot in which no handler runs
IdleProc ==
    [kind |-> "idle", n |-> 0, cmd |-> NoCommand, stage |-> 0, task |-> NoTask,
     awaiting |-> FALSE, settlement |-> NoSettlement, calls |-> <<>>,
     applied |-> 0, atStart |-> [shippings |-> {}, orders |-> {}, published |-> 0]]

EmptyMap == [k \in {} |-> 0]

\* no function has been called on its own
NoCall ==
    /\ fnOp = "none"
    /\ fnArg = 0
    /\ fnRes = 0

IdleApp ==
    /\ orders = EmptyMap
    /\ ordersByCustomer = EmptyMap
    /\ shippings = EmptyMap
    /\ shippingsByOrder = EmptyMap
    /\ published = <<>>
    /\ procs = [s \in Slots |-> IdleProc]
    /\ started = 0
    /\ NoCall

(***************************************************************************)
(* Specifications                                                          *)
(***************************************************************************)
\* the order lifecycle from createOrder
Init ==
    /\ now = 0
    /\ InitOrder
    /\ StartWithShipping(IdleShipping, "given")
    /\ IdleChain
    /\ IdleApp

Next ==
    \/ AddOrderLine
    \/ PlaceOrder
    \/ MarkAsPaid
    \/ Tick

Spec == Init /\ [][Next]_vars

\* the shipment lifecycle from createShipping
InitShip ==
    /\ now = 0
    /\ StartWithOrder(IdleOrder, "given")
    /\ InitShipping
    /\ IdleChain
    /\ IdleApp

NextShipping ==
    \/ StartPreparation
    \/ ShipOrder
    \/ DeliverShipment
    \/ Tick

SpecShipping == InitShip /\ [][NextShipping]_vars

\* single calls on arbitrary valid snapshots: one aggregate is drawn from
\* every status, the other one is held at a terminal snapshot
InitAny ==
    /\ now = 0
    /\ \/ /\ \E o \in AnyOrders : StartWithOrder(o, "given")
          /\ StartWithShipping(IdleShipping, "given")
       \/ /\ StartWithOrder(IdleOrder, "given")
          /\ \E s \in AnyShippings : StartWithShipping(s, "given")
    /\ IdleChain
    /\ IdleApp

NextAny ==
    \/ AddOrderLine
    \/ PlaceOrder
    \/ MarkAsPaid
    \/ StartPreparation
    \/ ShipOrder
    \/ DeliverShipment

SpecAny == InitAny /\ [][NextAny]_vars

\* a pipeline of NumSteps chained steps
InitPipeline ==
    /\ now = 0
    /\ StartWithOrder(IdleOrder, "given")
    /\ StartWithShipping(IdleShipping, "given")
    /\ InitChain
    /\ IdleApp

NextChain ==
    \/ ChainStep
    \/ ChainSkip

SpecChain == InitPipeline /\ [][NextChain]_vars

(***************************************************************************)
(* Properties                                                              *)
(***************************************************************************)
OrderRank(o) ==
    CASE o.status.type = "draft" -> 0
      [] o.status.type = "placed" -> 1
      [] o.status.type = "paid" -> 2
      [] OTHER -> 3

ShippingRank(s) ==
    CASE s.status.type = "pending" -> 0
      [] s.status.type = "preparing" -> 1
      [] s.status.type = "shipped" -> 2
      [] s.status.type = "delivered" -> 3
      [] OTHER -> 4

OrderCalls == {"addOrderLine", "placeOrder", "markAsPaid"}
ShippingCalls == {"startPreparation", "shipOrder", "deliverShipment"}

DistinctProducts(lines) ==
    \A i, j \in 1..Len(lines) :
        lines[i].productId = lines[j].productId => i = j

\* C1: in every order reachable from createOrder by addOrderLine calls (the
\* lines carrying prices made by createPrice), totalAmount is the sum of
\* unitPrice x quantity over its lines; the fresh order has total 0 and the
\* equality holds in the snapshot every successful addOrderLine returns.
C1_TotalIsSumOfLines ==
    /\ order.totalAmount = SumLines(order.lines)
    /\ orderOp = "createOrder" => order.totalAmount = 0 /\ order.lines = <<>>
    /\ (orderOp = "addOrderLine" /\ orderRes.success) =>
          orderRes.value.totalAmount = SumLines(orderRes.value.lines)

C1_Witness ==
    /\ orderOp = "addOrderLine"
    /\ orderRes.success
    /\ Len(order.lines) = 2
    /\ order.lines[1].quantity = 2
    /\ order.lines[2].unitPrice # order.lines[1].unitPrice
    /\ order.totalAmount > 0

\* C2: along any sequence of addOrderLine, placeOrder and markAsPaid calls,
\* each on the snapshot the previous successful call returned, the status
\* moves along Draft -> Placed -> Paid only: a call never moves it back and
\* never skips a step, addOrderLine keeps it, and placeOrder and markAsPaid
\* advance it by exactly one step when they succeed and keep it otherwise.
C2_StatusMonotonic ==
    [][LET d == OrderRank(order') - OrderRank(order)
       IN  /\ d \in {0, 1}
           /\ AddOrderLine => d = 0
           /\ (PlaceOrder \/ MarkAsPaid) => (d = 1 <=> orderRes'.success)
           /\ OrderRank(order') = 2 => OrderRank(order) \in {1, 2}]_vars

C2_Witness ==
    /\ orderOp = "markAsPaid"
    /\ orderRes.success
    /\ orderArg.status.type = "placed"
    /\ order.status.type = "paid"

\* C3: each shipping transition accepts exactly one prior status:
\* startPreparation succeeds iff Pending (giving Preparing), shipOrder iff
\* Preparing (giving Shipped), deliverShipment iff Shipped (giving
\* Delivered); on the four other statuses it fails, so the status a caller
\* holds only advances Pending -> Preparing -> Shipped -> Delivered.
C3_OnePriorStatus ==
    /\ shipOp = "startPreparation" =>
          /\ shipRes.success <=> shipArg.status.type = "pending"
          /\ shipRes.success => shipRes.value.status.type = "preparing"
    /\ shipOp = "shipOrder" =>
          /\ shipRes.success <=> shipArg.status.type = "preparing"
          /\ shipRes.success => shipRes.value.status.type = "shipped"
    /\ shipOp = "deliverShipment" =>
          /\ shipRes.success <=> shipArg.status.type = "shipped"
          /\ shipRes.success => shipRes.value.status.type = "delivered"
    /\ shipOp \in ShippingCalls =>
          ShippingRank(shipping) - ShippingRank(shipArg)
              = (IF shipRes.success THEN 1 ELSE 0)

C3_Witness ==
    /\ shipOp = "deliverShipment"
    /\ shipRes.success
    /\ shipArg.status.type = "shipped"
    /\ shipping.status.type = "delivered"

\* C4: addOrderLine on an order that is not Draft (Placed, Paid, Cancelled)
\* fails for every line, the order the caller holds is the same snapshot as
\* before the call, and the handler reports the failure as
\* business_rule_violation.
C4_NonDraftRejectsLines ==
    (orderOp = "addOrderLine" /\ orderArg.status.type # "draft") =>
        /\ ~orderRes.success
        /\ order = orderArg
        /\ lineFailure(orderRes).type = "left"
        /\ lineFailure(orderRes).value.type = "business_rule_violation"

C4_Witness ==
    /\ orderOp = "addOrderLine"
    /\ orderArg.status.type = "placed"
    /\ OrderLineSchemaValid(orderLine)
    /\ ~HasProduct(orderArg.lines, orderLine.productId)
    /\ ~orderRes.success

\* C5 as stated, for lines that pass OrderLineSchema: addOrderLine on a
\* Draft order fails when the productId is already present and otherwise
\* appends the line at the end; product identifiers are pairwise distinct
\* in every reachable order.
C5_AsStated ==
    /\ DistinctProducts(order.lines)
    /\ (orderOp = "addOrderLine" /\ orderArg.status.type = "draft"
            /\ OrderLineSchemaValid(orderLine)) =>
          IF HasProduct(orderArg.lines, orderLine.productId)
          THEN ~orderRes.success
          ELSE /\ orderRes.success
               /\ orderRes.value.lines = Append(orderArg.lines, orderLine)

\* C5 amended: addOrderLine on a Draft order fails when the productId is
\* already present; otherwise it succeeds exactly when the new total is a
\* Price (at most 999,999.99) and the line passes re-validation, and then
\* the returned lines are the old ones with the line appended at the end;
\* product identifiers are pairwise distinct in every reachable order.
C5_DistinctProducts ==
    /\ DistinctProducts(order.lines)
    /\ (orderOp = "addOrderLine" /\ orderArg.status.type = "draft") =>
          IF HasProduct(orderArg.lines, orderLine.productId)
          THEN ~orderRes.success /\ order = orderArg
          ELSE /\ orderRes.success <=>
                    /\ SumLines(Append(orderArg.lines, orderLine)) <= MaxPrice
                    /\ OrderLineSchemaValid(orderLine)
               /\ orderRes.success =>
                    orderRes.value.lines = Append(orderArg.lines, orderLine)

C5_Witness ==
    /\ orderOp = "addOrderLine"
    /\ orderArg.status.type = "draft"
    /\ Len(orderArg.lines) = 1
    /\ HasProduct(orderArg.lines, orderLine.productId)
    /\ OrderLineSchemaValid(orderLine)
    /\ orderLine # orderArg.lines[1]
    /\ ~orderRes.success

\* C6: placeOrder succeeds iff the order is Draft and has at least one line
\* (never on empty lines, never on Placed, Paid or Cancelled), and the
\* snapshot it returns is Placed.
C6_PlaceNeedsDraftWithLines ==
    orderOp = "placeOrder" =>
        /\ orderRes.success <=>
              (orderArg.status.type = "draft" /\ Len(orderArg.lines) > 0)
        /\ orderRes.success => orderRes.value.status.type = "placed"

C6_Witness ==
    /\ orderOp = "placeOrder"
    /\ orderRes.success
    /\ Len(orderArg.lines) > 0
    /\ order.status.type = "placed"

\* C7: markAsPaid succeeds iff the prior status is exactly Placed (it fails
\* on Draft, Paid and Cancelled), and the snapshot it returns is Paid.
C7_PayNeedsPlaced ==
    orderOp = "markAsPaid" =>
        /\ orderRes.success <=> orderArg.status.type = "placed"
        /\ orderRes.success => orderRes.value.status.type = "paid"

C7_Witness ==
    /\ orderOp = "markAsPaid"
    /\ orderRes.success
    /\ orderArg.status.type = "placed"
    /\ orderRes.value.status.type = "paid"

\* C8: terminal states are absorbing: no order function succeeds on a Paid
\* or Cancelled order and no shipping function succeeds on a Delivered or
\* Failed shipment; the snapshot stays as it was.
C8_TerminalAbsorbing ==
    /\ (orderOp \in OrderCalls /\ orderArg.status.type \in {"paid", "cancelled"}) =>
          ~orderRes.success /\ order = orderArg
    /\ (shipOp \in ShippingCalls
            /\ shipArg.status.type \in {"delivered", "failed"}) =>
          ~shipRes.success /\ shipping = shipArg

C8_Witness ==
    /\ orderOp = "markAsPaid"
    /\ orderArg.status.type = "paid"
    /\ ~orderRes.success
    /\ shipOp = "deliverShipment"
    /\ shipArg.status.type = "failed"
    /\ ~shipRes.success

\* C9: a rejected shipping transition changes nothing: shipOrder on a
\* Pending shipment returns a failure and the status is still Pending, and
\* every shipping transition called on a status it does not accept returns
\* a failure value carrying a message and leaves the snapshot as it was.
C9_RejectedChangesNothing ==
    /\ (shipOp = "shipOrder" /\ shipArg.status.type = "pending") =>
          ~shipRes.success /\ shipping.status.type = "pending"
    /\ \/ shipOp = "startPreparation" /\ shipArg.status.type # "pending"
       \/ shipOp = "shipOrder" /\ shipArg.status.type # "preparing"
       \/ shipOp = "deliverShipment" /\ shipArg.status.type # "shipped"
       => /\ DOMAIN shipRes = {"success", "error"}
          /\ ~shipRes.success
          /\ shipping = shipArg

C9_Witness ==
    /\ shipOp = "shipOrder"
    /\ shipArg.status.type = "pending"
    /\ ~shipRes.success
    /\ shipping.status.type = "pending"

\* C10: taskEither.chain short-circuits: once the task of a pipeline has
\* resolved to a left, no later step function is invoked and every later
\* stage, so the whole pipeline, resolves to that same left; a step is
\* invoked at most once, and only on a right.
C10_ChainShortCircuits ==
    /\ \A i \in 1..Len(chainTrace) :
          chainTrace[i].type = "left" =>
              \A j \in (i + 1)..Len(chainTrace) :
                  chainTrace[j] = chainTrace[i] /\ chainCalls[j - 1] = 0
    /\ \A k \in Stages :
          /\ chainCalls[k] <= 1
          /\ chainCalls[k] = 1 => (k <= Len(chainTrace) /\ chainTrace[k].type = "right")

C10_Witness ==
    /\ Len(chainTrace) = 4
    /\ chainTrace[1].type = "right"
    /\ chainCalls[1] = 1
    /\ chainTrace[2].type = "right"
    /\ chainCalls[2] = 1
    /\ chainTrace[3] = left(2)
    /\ chainCalls[3] = 0
    /\ chainTrace[4] = left(2)

(***************************************************************************)
(* In-memory repositories and event bus (infrastructure). The bodies of    *)
(* the async methods hold no await: they run to their end when called.     *)
(***************************************************************************)
\* Map.prototype.set
MapSet(m, k, v) == [x \in DOMAIN m \cup {k} |-> IF x = k THEN v ELSE m[x]]

\* what findById / findByOrderId resolve to
null == [found |-> FALSE, value |-> 0]
found(v) == [found |-> TRUE, value |-> v]

\* faulty variant: a stored snapshot is kept, the first write wins
orderRepository_saveKeepsFirst(m, o) == IF o.id \in DOMAIN m THEN m ELSE MapSet(m, o.id, o)

\* InMemoryOrderRepository.save, the snapshot: orders.set(order.id, order)
orderRepository_save(m, o) == MapSet(m, o.id, o)

\* InMemoryOrderRepository.save, the index: the customer's Set, created when
\* absent, gets the order id
orderRepository_saveIndex(byCustomer, o) ==
    MapSet(byCustomer, o.customerId,
           (IF o.customerId \in DOMAIN byCustomer
            THEN byCustomer[o.customerId] ELSE {}) \cup {o.id})

\* InMemoryOrderRepository.findById
orderRepository_findById(m, id) == IF id \in DOMAIN m THEN found(m[id]) ELSE null

\* faulty variant: the snapshot is stored under the order id
shippingRepository_saveByOrder(ss, byOrder, sh) ==
    [shippings |-> MapSet(ss, sh.orderId, sh),
     shippingsByOrder |-> MapSet(byOrder, sh.orderId, sh.orderId)]

\* InMemoryShippingRepository.save: the snapshot by id, and the index by order
shippingRepository_save(ss, byOrder, sh) ==
    [shippings |-> MapSet(ss, sh.id, sh),
     shippingsByOrder |-> MapSet(byOrder, sh.orderId, sh.id)]

\* InMemoryShippingRepository.findById
shippingRepository_findById(ss, id) == IF id \in DOMAIN ss THEN found(ss[id]) ELSE null

\* faulty variant: the order id is looked up among the shipment ids
shippingRepository_findByOrderIdAsId(ss, byOrder, orderId) ==
    IF orderId \notin DOMAIN ss THEN null ELSE found(ss[orderId])

\* InMemoryShippingRepository.findByOrderId: through the index
shippingRepository_findByOrderId(ss, byOrder, orderId) ==
    IF orderId \notin DOMAIN byOrder THEN null
    ELSE IF byOrder[orderId] \notin DOMAIN ss THEN null
    ELSE found(ss[byOrder[orderId]])

\* faulty variant: the customer id is passed as the aggregate id
OrderPlacedEventOfCustomer(aggregateId, customerId, totalAmount, t) ==
    [eventType |-> "order_placed", aggregateId |-> customerId,
     customerId |-> customerId, totalAmount |-> totalAmount, occurredAt |-> t]

\* new OrderPlacedEvent(aggregateId, customerId, totalAmount)
OrderPlacedEvent(aggregateId, customerId, totalAmount, t) ==
    [eventType |-> "order_placed", aggregateId |-> aggregateId,
     customerId |-> customerId, totalAmount |-> totalAmount, occurredAt |-> t]

\* eventBus.publish
eventBus_publish(events, event) == Append(events, event)

(***************************************************************************)
(* Promises and errors of the application layer                            *)
(***************************************************************************)
\* what a collaborator's promise settles to
resolved(v) == [ok |-> TRUE, value |-> v]
faulted(reason) == [ok |-> FALSE, value |-> reason]

\* the reasons a collaborator's promise is rejected with
Faults == {"timeout", "connection_lost"}

validationError(message) == [type |-> "validation_error", message |-> message]
businessRuleViolation(message) == [type |-> "business_rule_violation", message |-> message]
\* faulty variant: an absent order is reported with the wrong tag
notFoundAsRuleViolation(message) ==
    [type |-> "business_rule_violation", message |-> message]
notFound(message) == [type |-> "not_found", message |-> message]
repositoryError(message, cause) ==
    [type |-> "repository_error", message |-> message, cause |-> cause]

\* faulty variant: there is no catch, the rejection passes through
fromPromiseNoCatch(promise, onReject) ==
    IF promise.ok THEN right(promise.value) ELSE rejected(promise.value)

\* faulty variant: the reason is wrapped as it is, onReject is not applied
fromPromiseRawReason(promise, onReject) ==
    IF promise.ok THEN right(promise.value) ELSE left(promise.value)

\* taskEither.fromPromise: promise.then(right).catch(reason => left(onReject(reason)));
\* onReject is the function from reasons to errors
fromPromise(promise, onReject) ==
    IF promise.ok THEN right(promise.value) ELSE left(onReject[promise.value])

(***************************************************************************)
(* Handler invocations. A slot holds one invocation: the chain stage it    *)
(* has reached, what the task of that stage resolved to, and the           *)
(* collaborator promise it waits for. Each then-callback is one step.      *)
(***************************************************************************)
\* the chained steps of the two pipelines
PlaceOrderStages == 5
CreateShippingStages == 7

LastStage(kind) == IF kind = "place" THEN PlaceOrderStages ELSE CreateShippingStages

\* the promise the handler returned has resolved (or rejected)
Settled(p) ==
    /\ p.kind # "idle"
    /\ ~p.awaiting
    /\ p.stage = 0 \/ p.stage = LastStage(p.kind)

Running(s) == procs[s].kind # "idle" /\ ~Settled(procs[s])

\* the n-th invocation of a handler, with what the collaborators hold when
\* it is called
Invocation(kind, n, command) ==
    [IdleProc EXCEPT
        !.kind = kind, !.n = n, !.cmd = command,
        !.atStart = [shippings |-> DOMAIN shippings, orders |-> DOMAIN orders,
                     published |-> Len(published)]]

\* uuidv4() of the n-th invocation: never the id of anything else
FreshOrderIds == <<"o5", "o6", "o7", "o8">>
FreshShippingIds == <<"s1", "s2", "s3", "s4">>

\* the call and its argument are appended to the invocation's log when it is made
Called(p, name, arg) ==
    Append(p.calls, [call |-> name, arg |-> arg, state |-> "pending", result |-> 0])

\* faulty variant: the call is made but its promise is not waited for
AwaitNothing(p, stage, name, arg, settlement) ==
    [p EXCEPT !.stage = stage, !.calls = Called(p, name, arg)]

\* the stage of an invocation issues a collaborator call whose promise will
\* settle to `settlement`
Await(p, stage, name, arg, settlement) ==
    [p EXCEPT !.stage = stage, !.awaiting = TRUE, !.settlement = settlement,
              !.calls = Called(p, name, arg)]

\* the stage passes a left on, or ends with the Either its callback returned
Continue(p, stage, task) == [p EXCEPT !.stage = stage, !.task = task]

\* the message of the repository_error each fromPromise builds
FaultMessage(kind, stage) ==
    CASE kind = "place" /\ stage = 4 -> "order_save_failed"
      [] kind = "place" /\ stage = 5 -> "event_publish_failed"
      [] kind = "ship" /\ stage = 1 -> "order_lookup_failed"
      [] kind = "ship" /\ stage = 4 -> "shipping_lookup_failed"
      [] kind = "ship" /\ stage = 7 -> "shipping_save_failed"
      [] OTHER -> "none"

\* the error mapper handed to fromPromise at a stage
OnReject(kind, stage) ==
    [cause \in Faults |-> repositoryError(FaultMessage(kind, stage), cause)]

\* faulty variant: a rejection of eventBus.publish is swallowed and the
\* handler goes on to the order id
SettleSwallowsPublishFault(s) ==
    LET p == procs[s]
        n == Len(p.calls)
        swallowed == p.kind = "place" /\ p.stage = 5 /\ ~p.settlement.ok
    IN  /\ p.awaiting
        /\ procs' = [procs EXCEPT ![s] =
              [p EXCEPT
                 !.awaiting = FALSE,
                 !.task = IF swallowed THEN right(p.task.value.id)
                          ELSE fromPromise(p.settlement, OnReject(p.kind, p.stage)),
                 !.calls[n].state =
                     IF p.settlement.ok THEN "resolved" ELSE "rejected",
                 !.calls[n].result = p.settlement.value]]
        /\ UNCHANGED <<now, orderVars, shipVars, chainVars, repoVars, started, callVars>>

\* faulty variant: a rejected collaborator call is made again
SettleRetries(s) ==
    LET p == procs[s]
        n == Len(p.calls)
    IN  /\ p.awaiting
        /\ ~p.settlement.ok => n < 4
        /\ procs' = [procs EXCEPT ![s] =
              IF p.settlement.ok
              THEN [p EXCEPT
                      !.awaiting = FALSE,
                      !.task = fromPromise(p.settlement, OnReject(p.kind, p.stage)),
                      !.calls[n].state = "resolved",
                      !.calls[n].result = p.settlement.value]
              ELSE [p EXCEPT
                      !.calls = Called([p EXCEPT !.calls[n].state = "rejected",
                                                 !.calls[n].result = p.settlement.value],
                                       p.calls[n].call, p.calls[n].arg)]]
        /\ UNCHANGED <<now, orderVars, shipVars, chainVars, repoVars, started, callVars>>

\* faulty variant: a publish fault takes the saved order out of the repository
SettleRollsBackOnPublishFault(s) ==
    LET p == procs[s]
        n == Len(p.calls)
        rollback == p.kind = "place" /\ p.stage = 5 /\ ~p.settlement.ok
    IN  /\ p.awaiting
        /\ procs' = [procs EXCEPT ![s] =
              [p EXCEPT
                 !.awaiting = FALSE,
                 !.task = fromPromise(p.settlement, OnReject(p.kind, p.stage)),
                 !.calls[n].state =
                     IF p.settlement.ok THEN "resolved" ELSE "rejected",
                 !.calls[n].result = p.settlement.value]]
        /\ orders' = IF rollback
                     THEN [id \in DOMAIN orders \ {p.task.value.id} |-> orders[id]]
                     ELSE orders
        /\ UNCHANGED <<now, orderVars, shipVars, chainVars, ordersByCustomer, shippings,
                       shippingsByOrder, published, started, callVars>>

\* the collaborator promise an invocation waits for settles; fromPromise
\* turns it into the Either the next stage receives
Settle(s) ==
    LET p == procs[s]
        n == Len(p.calls)
    IN  /\ p.awaiting
        /\ procs' = [procs EXCEPT ![s] =
              [p EXCEPT
                 !.awaiting = FALSE,
                 !.task = fromPromise(p.settlement, OnReject(p.kind, p.stage)),
                 !.calls[n].state =
                     IF p.settlement.ok THEN "resolved" ELSE "rejected",
                 !.calls[n].result = p.settlement.value]]
        /\ UNCHANGED <<now, orderVars, shipVars, chainVars, repoVars, started, callVars>>

(***************************************************************************)
(* Place-order handler (application/placeOrderCommand.ts)                  *)
(***************************************************************************)
\* the lines a command may carry: two products; 500,000.00 x 2 is over the
\* largest Price; an empty product name
CommandLines ==
    {[productId |-> 1, productName |-> "Widget", unitPrice |-> 2002, quantity |-> 2],
     [productId |-> 2, productName |-> "Widget", unitPrice |-> 100000000, quantity |-> 1],
     [productId |-> 2, productName |-> "Widget", unitPrice |-> 100000000, quantity |-> 2],
     [productId |-> 1, productName |-> "", unitPrice |-> 2002, quantity |-> 1]}

PlaceOrderCommands ==
    {[lines |-> ls] :
        ls \in UNION {[1..n -> CommandLines] : n \in 0..MaxCommandLines}}

\* faulty variant: .min(1) is missing
PlaceOrderCommandSchemaParseAllowsEmpty(command) ==
    IF \E i \in 1..Len(command.lines) : ~OrderLineSchemaValid(command.lines[i])
    THEN Err("invalid_line")
    ELSE [success |-> TRUE, data |-> command]

\* PlaceOrderCommandSchema.parse: z.array(OrderLineSchema).min(1)
PlaceOrderCommandSchemaParse(command) ==
    IF Len(command.lines) < 1 THEN Err("too_small")
    ELSE IF \E i \in 1..Len(command.lines) : ~OrderLineSchemaValid(command.lines[i])
    THEN Err("invalid_line")
    ELSE [success |-> TRUE, data |-> command]

\* faulty variant: a refused line is skipped and the fold goes on
addLinesSkipsRefused(o, lines, t) ==
    LET fold[n \in 0..Len(lines)] ==
            IF n = 0 THEN [task |-> right(o), applied |-> 0]
            ELSE LET result == addOrderLine(fold[n - 1].task.value, lines[n], t)
                 IN  IF ~result.success
                     THEN [task |-> fold[n - 1].task, applied |-> n]
                     ELSE [task |-> right(result.value), applied |-> n]
    IN  fold[Len(lines)]

\* step 2: the for loop over command.lines; `applied` counts the calls of
\* addOrderLine
addLines(o, lines, t) ==
    LET fold[n \in 0..Len(lines)] ==
            IF n = 0 THEN [task |-> right(o), applied |-> 0]
            ELSE IF fold[n - 1].task.type = "left" THEN fold[n - 1]
            ELSE LET result == addOrderLine(fold[n - 1].task.value, lines[n], t)
                 IN  IF ~result.success
                     THEN [task |-> lineFailure(result), applied |-> n]
                     ELSE [task |-> right(result.value), applied |-> n]
    IN  fold[Len(lines)]

\* the handler is called: validation, then step 1 (createOrder) at once
StartPlaceOrder(s, command) ==
    LET n == started + 1
        validation == PlaceOrderCommandSchemaParse(command)
        p == Invocation("place", n, command)
    IN  /\ started < MaxInvocations
        /\ ~Running(s)
        /\ procs' = [procs EXCEPT ![s] =
              IF ~validation.success
              THEN Continue(p, 0, left(validationError("invalid_place_order_command")))
              ELSE Continue(p, 1, right(createOrder(FreshOrderIds[n], "c1", now)))]
        /\ started' = n
        /\ UNCHANGED <<now, orderVars, shipVars, chainVars, repoVars, callVars>>

\* step 2: add the lines
PlaceAddLines(s) ==
    LET p == procs[s]
        fold == addLines(p.task.value, p.cmd.lines, now)
        c == chain(p.task, fold.task)
    IN  /\ p.kind = "place" /\ p.stage = 1 /\ ~p.awaiting
        /\ procs' = [procs EXCEPT ![s] =
              [Continue(p, 2, c.task) EXCEPT
                  !.applied = IF c.invoked THEN fold.applied ELSE 0]]
        /\ UNCHANGED <<now, orderVars, shipVars, chainVars, repoVars, started, callVars>>

\* step 3: place the order
PlacePlaceOrder(s) ==
    LET p == procs[s]
        result == placeOrder(p.task.value, now)
        c == chain(p.task,
                   IF result.success THEN right(result.value)
                   ELSE left(businessRuleViolation(result.error)))
    IN  /\ p.kind = "place" /\ p.stage = 2 /\ ~p.awaiting
        /\ procs' = [procs EXCEPT ![s] = Continue(p, 3, c.task)]
        /\ UNCHANGED <<now, orderVars, shipVars, chainVars, repoVars, started, callVars>>

\* step 4: orderRepository.save(order).then(() => order)
PlaceSave(s) ==
    LET p == procs[s]
        c == chain(p.task, NoTask)
    IN  /\ p.kind = "place" /\ p.stage = 3 /\ ~p.awaiting
        /\ IF c.invoked
           THEN /\ orders' = orderRepository_save(orders, p.task.value)
                /\ ordersByCustomer' =
                      orderRepository_saveIndex(ordersByCustomer, p.task.value)
                /\ procs' = [procs EXCEPT ![s] =
                      Await(p, 4, "orderRepository.save", p.task.value,
                            resolved(p.task.value))]
           ELSE /\ orders' = orders
                /\ ordersByCustomer' = ordersByCustomer
                /\ procs' = [procs EXCEPT ![s] = Continue(p, 4, c.task)]
        /\ UNCHANGED <<now, orderVars, shipVars, chainVars, shippings,
                       shippingsByOrder, published, started, callVars>>

\* step 4 with a repository whose save rejects: nothing is stored
PlaceSaveFaults(s, reason) ==
    LET p == procs[s]
    IN  /\ p.kind = "place" /\ p.stage = 3 /\ ~p.awaiting
        /\ chain(p.task, NoTask).invoked
        /\ procs' = [procs EXCEPT ![s] =
              Await(p, 4, "orderRepository.save", p.task.value, faulted(reason))]
        /\ UNCHANGED <<now, orderVars, shipVars, chainVars, repoVars, started, callVars>>

\* step 5: eventBus.publish(new OrderPlacedEvent(...)).then(() => order.id)
PlacePublish(s) ==
    LET p == procs[s]
        o == p.task.value
        event == OrderPlacedEvent(o.id, o.customerId, o.totalAmount, now)
        c == chain(p.task, NoTask)
    IN  /\ p.kind = "place" /\ p.stage = 4 /\ ~p.awaiting
        /\ IF c.invoked
           THEN /\ published' = eventBus_publish(published, event)
                /\ procs' = [procs EXCEPT ![s] =
                      Await(p, 5, "eventBus.publish", event, resolved(o.id))]
           ELSE /\ published' = published
                /\ procs' = [procs EXCEPT ![s] = Continue(p, 5, c.task)]
        /\ UNCHANGED <<now, orderVars, shipVars, chainVars, orders, ordersByCustomer,
                       shippings, shippingsByOrder, started, callVars>>

\* step 5 with an event bus whose publish rejects
PlacePublishFaults(s, reason) ==
    LET p == procs[s]
        o == p.task.value
        event == OrderPlacedEvent(o.id, o.customerId, o.totalAmount, now)
    IN  /\ p.kind = "place" /\ p.stage = 4 /\ ~p.awaiting
        /\ chain(p.task, NoTask).invoked
        /\ procs' = [procs EXCEPT ![s] =
              Await(p, 5, "eventBus.publish", event, faulted(reason))]
        /\ UNCHANGED <<now, orderVars, shipVars, chainVars, repoVars, started, callVars>>

(***************************************************************************)
(* Create-shipment handler (application/createShippingCommand.ts)          *)
(***************************************************************************)
\* the orders the repository holds when the handlers are first called: a
\* draft, a placed, a paid (stored by the caller as in applicationExample.ts)
\* and a cancelled one
StoredLine == [productId |-> 1, productName |-> "Widget", unitPrice |-> 2002, quantity |-> 1]
StoredDraft == createOrder("o1", "c1", 0)
StoredPlaced == placeOrder(addOrderLine(createOrder("o2", "c1", 0), StoredLine, 0).value, 0).value
StoredPaid ==
    [placeOrder(addOrderLine(createOrder("o3", "c1", 0), StoredLine, 0).value, 0).value
        EXCEPT !.status = [type |-> "paid", paidAt |-> 0], !.updatedAt = 0]
StoredCancelled ==
    [placeOrder(addOrderLine(createOrder("o4", "c1", 0), StoredLine, 0).value, 0).value
        EXCEPT !.status = [type |-> "cancelled", cancelledAt |-> 0, reason |-> "customer"],
               !.updatedAt = 0]
StoredOrders ==
    orderRepository_save(orderRepository_save(orderRepository_save(
        orderRepository_save(EmptyMap, StoredDraft), StoredPlaced), StoredPaid),
        StoredCancelled)
StoredOrdersByCustomer ==
    orderRepository_saveIndex(orderRepository_saveIndex(orderRepository_saveIndex(
        orderRepository_saveIndex(EmptyMap, StoredDraft), StoredPlaced), StoredPaid),
        StoredCancelled)

\* the order ids a command may name: the stored ones and the first fresh one
CommandOrderIds == {"o1", "o2", "o3", "o4", "o5"}
\* a valid address and one whose postal code has no hyphen
CommandAddresses ==
    Addresses \cup
    {[street |-> "1-1-1", city |-> "Chiyoda", state |-> "Tokyo",
      postalCode |-> <<"1", "0", "0", "0", "0", "0", "1">>, country |-> "Japan"],
     [street |-> "1-1-1", city |-> "", state |-> "Tokyo",
      postalCode |-> <<"1", "0", "0", "-", "0", "0", "0", "1">>, country |-> "Japan"]}
CommandMethods == {"standard", "express", "drone"}
CreateShippingCommands ==
    [orderId : CommandOrderIds, shippingAddress : CommandAddresses,
     method : CommandMethods]

\* faulty variant: the method is not checked against the enum
CreateShippingCommandSchemaParseAnyMethod(command) ==
    LET ad == AddressSchemaParse(command.shippingAddress)
    IN  IF ~ad.success THEN Err(ad.error)
        ELSE [success |-> TRUE, data |-> command]

\* CreateShippingCommandSchema.parse: orderId is z.custom (unchecked)
CreateShippingCommandSchemaParse(command) ==
    LET ad == AddressSchemaParse(command.shippingAddress)
    IN  IF ~ad.success THEN Err(ad.error)
        ELSE IF command.method \notin ShippingMethods THEN Err("invalid_enum_value")
        ELSE [success |-> TRUE, data |-> command]

\* the handler is called: validation, then step 1 calls
\* orderRepository.findById(command.orderId) at once
StartCreateShipping(s, command) ==
    LET n == started + 1
        validation == CreateShippingCommandSchemaParse(command)
        p == Invocation("ship", n, command)
    IN  /\ started < MaxInvocations
        /\ ~Running(s)
        /\ procs' = [procs EXCEPT ![s] =
              IF ~validation.success
              THEN Continue(p, 0, left(validationError("invalid_create_shipping_command")))
              ELSE Await(p, 1, "orderRepository.findById", command.orderId,
                         resolved(orderRepository_findById(orders, command.orderId)))]
        /\ started' = n
        /\ UNCHANGED <<now, orderVars, shipVars, chainVars, repoVars, callVars>>

\* the handler is called with an order repository whose findById rejects
StartCreateShippingFaults(s, command, reason) ==
    LET n == started + 1
        p == Invocation("ship", n, command)
    IN  /\ started < MaxInvocations
        /\ ~Running(s)
        /\ CreateShippingCommandSchemaParse(command).success
        /\ procs' = [procs EXCEPT ![s] =
              Await(p, 1, "orderRepository.findById", command.orderId, faulted(reason))]
        /\ started' = n
        /\ UNCHANGED <<now, orderVars, shipVars, chainVars, repoVars, callVars>>

\* step 2: the order must exist
ShipCheckOrder(s) ==
    LET p == procs[s]
        c == chain(p.task,
                   IF ~p.task.value.found THEN left(notFound("order_not_found"))
                   ELSE right(p.task.value.value))
    IN  /\ p.kind = "ship" /\ p.stage = 1 /\ ~p.awaiting
        /\ procs' = [procs EXCEPT ![s] = Continue(p, 2, c.task)]
        /\ UNCHANGED <<now, orderVars, shipVars, chainVars, repoVars, started, callVars>>

\* faulty variant: a placed order passes the status check too
ShipCheckPaidOrPlaced(s) ==
    LET p == procs[s]
        c == chain(p.task,
                   IF p.task.value.status.type \notin {"paid", "placed"}
                   THEN left(businessRuleViolation("order_not_paid"))
                   ELSE right(p.task.value))
    IN  /\ p.kind = "ship" /\ p.stage = 2 /\ ~p.awaiting
        /\ procs' = [procs EXCEPT ![s] = Continue(p, 3, c.task)]
        /\ UNCHANGED <<now, orderVars, shipVars, chainVars, repoVars, started, callVars>>

\* step 3: the order must be paid
ShipCheckPaid(s) ==
    LET p == procs[s]
        c == chain(p.task,
                   IF p.task.value.status.type # "paid"
                   THEN left(businessRuleViolation("order_not_paid"))
                   ELSE right(p.task.value))
    IN  /\ p.kind = "ship" /\ p.stage = 2 /\ ~p.awaiting
        /\ procs' = [procs EXCEPT ![s] = Continue(p, 3, c.task)]
        /\ UNCHANGED <<now, orderVars, shipVars, chainVars, repoVars, started, callVars>>

\* step 4: shippingRepository.findByOrderId(command.orderId)
ShipFindExisting(s) ==
    LET p == procs[s]
        c == chain(p.task, NoTask)
    IN  /\ p.kind = "ship" /\ p.stage = 3 /\ ~p.awaiting
        /\ procs' = [procs EXCEPT ![s] =
              IF c.invoked
              THEN Await(p, 4, "shippingRepository.findByOrderId", p.cmd.orderId,
                         resolved(shippingRepository_findByOrderId(
                             shippings, shippingsByOrder, p.cmd.orderId)))
              ELSE Continue(p, 4, c.task)]
        /\ UNCHANGED <<now, orderVars, shipVars, chainVars, repoVars, started, callVars>>

\* step 4 with a shipping repository whose findByOrderId rejects
ShipFindExistingFaults(s, reason) ==
    LET p == procs[s]
    IN  /\ p.kind = "ship" /\ p.stage = 3 /\ ~p.awaiting
        /\ chain(p.task, NoTask).invoked
        /\ procs' = [procs EXCEPT ![s] =
              Await(p, 4, "shippingRepository.findByOrderId", p.cmd.orderId,
                    faulted(reason))]
        /\ UNCHANGED <<now, orderVars, shipVars, chainVars, repoVars, started, callVars>>

\* step 5: there must be no shipment for the order yet
ShipCheckDuplicate(s) ==
    LET p == procs[s]
        c == chain(p.task,
                   IF p.task.value.found
                   THEN left(businessRuleViolation("shipping_exists"))
                   ELSE right(null))
    IN  /\ p.kind = "ship" /\ p.stage = 4 /\ ~p.awaiting
        /\ procs' = [procs EXCEPT ![s] = Continue(p, 5, c.task)]
        /\ UNCHANGED <<now, orderVars, shipVars, chainVars, repoVars, started, callVars>>

\* step 6: createShipping(orderId, shippingAddress, method); a throw inside
\* the callback rejects the task
ShipCreate(s) ==
    LET p == procs[s]
        created == createShipping(FreshShippingIds[p.n], p.cmd.orderId,
                                  p.cmd.shippingAddress, p.cmd.method, now)
        c == chain(p.task,
                   IF created.threw THEN rejected(created.error)
                   ELSE right(created.value))
    IN  /\ p.kind = "ship" /\ p.stage = 5 /\ ~p.awaiting
        /\ procs' = [procs EXCEPT ![s] = Continue(p, 6, c.task)]
        /\ UNCHANGED <<now, orderVars, shipVars, chainVars, repoVars, started, callVars>>

\* faulty variant: the save step also hands an event to the event bus
ShipSavePublishes(s) ==
    LET p == procs[s]
        c == chain(p.task, NoTask)
        stored == shippingRepository_save(shippings, shippingsByOrder, p.task.value)
    IN  /\ p.kind = "ship" /\ p.stage = 6 /\ ~p.awaiting
        /\ IF c.invoked
           THEN /\ shippings' = stored.shippings
                /\ shippingsByOrder' = stored.shippingsByOrder
                /\ published' = eventBus_publish(published,
                      [eventType |-> "shipment_created", aggregateId |-> p.task.value.id,
                       occurredAt |-> now])
                /\ procs' = [procs EXCEPT ![s] =
                      Await(p, 7, "shippingRepository.save", p.task.value,
                            resolved(p.task.value.id))]
           ELSE /\ UNCHANGED <<shippings, shippingsByOrder, published>>
                /\ procs' = [procs EXCEPT ![s] = Continue(p, 7, c.task)]
        /\ UNCHANGED <<now, orderVars, shipVars, chainVars, orders, ordersByCustomer,
                       started, callVars>>

\* step 7: shippingRepository.save(shipping).then(() => shipping.id)
ShipSave(s) ==
    LET p == procs[s]
        c == chain(p.task, NoTask)
        stored == shippingRepository_save(shippings, shippingsByOrder, p.task.value)
    IN  /\ p.kind = "ship" /\ p.stage = 6 /\ ~p.awaiting
        /\ IF c.invoked
           THEN /\ shippings' = stored.shippings
                /\ shippingsByOrder' = stored.shippingsByOrder
                /\ procs' = [procs EXCEPT ![s] =
                      Await(p, 7, "shippingRepository.save", p.task.value,
                            resolved(p.task.value.id))]
           ELSE /\ UNCHANGED <<shippings, shippingsByOrder>>
                /\ procs' = [procs EXCEPT ![s] = Continue(p, 7, c.task)]
        /\ UNCHANGED <<now, orderVars, shipVars, chainVars, orders, ordersByCustomer,
                       published, started, callVars>>

\* step 7 with a shipping repository whose save rejects: nothing is stored
ShipSaveFaults(s, reason) ==
    LET p == procs[s]
    IN  /\ p.kind = "ship" /\ p.stage = 6 /\ ~p.awaiting
        /\ chain(p.task, NoTask).invoked
        /\ procs' = [procs EXCEPT ![s] =
              Await(p, 7, "shippingRepository.save", p.task.value, faulted(reason))]
        /\ UNCHANGED <<now, orderVars, shipVars, chainVars, repoVars, started, callVars>>

(***************************************************************************)
(* Specifications of the application layer                                 *)
(***************************************************************************)
InitApp ==
    /\ now = 0
    /\ StartWithOrder(IdleOrder, "given")
    /\ StartWithShipping(IdleShipping, "given")
    /\ IdleChain
    /\ orders = StoredOrders
    /\ ordersByCustomer = StoredOrdersByCustomer
    /\ shippings = EmptyMap
    /\ shippingsByOrder = EmptyMap
    /\ published = <<>>
    /\ procs = [s \in Slots |-> IdleProc]
    /\ started = 0
    /\ NoCall

\* the then-callbacks of the place-order pipeline
PlaceOrderSteps(s) ==
    \/ PlaceAddLines(s)
    \/ PlacePlaceOrder(s)
    \/ PlaceSave(s)
    \/ PlacePublish(s)

\* the then-callbacks of the create-shipment pipeline
CreateShippingSteps(s) ==
    \/ ShipCheckOrder(s)
    \/ ShipCheckPaid(s)
    \/ ShipFindExisting(s)
    \/ ShipCheckDuplicate(s)
    \/ ShipCreate(s)
    \/ ShipSave(s)

\* a collaborator call that rejects
CollaboratorFaults(s) ==
    \E reason \in Faults :
        \/ PlaceSaveFaults(s, reason)
        \/ PlacePublishFaults(s, reason)
        \/ \E command \in CreateShippingCommands :
              StartCreateShippingFaults(s, command, reason)
        \/ ShipFindExistingFaults(s, reason)
        \/ ShipSaveFaults(s, reason)

\* one caller, one invocation at a time, in-memory collaborators
NextSequential ==
    \/ \E command \in PlaceOrderCommands : StartPlaceOrder(1, command)
    \/ \E command \in CreateShippingCommands : StartCreateShipping(1, command)
    \/ PlaceOrderSteps(1)
    \/ CreateShippingSteps(1)
    \/ Settle(1)

SpecSequential == InitApp /\ [][NextSequential]_vars

\* one caller, one invocation at a time, collaborators that may reject
NextFaults ==
    \/ NextSequential
    \/ CollaboratorFaults(1)

SpecFaults == InitApp /\ [][NextFaults]_vars

\* create-shipment invocations in both slots, interleaved at the awaits
NextConcurrent ==
    \E s \in Slots :
        \/ \E command \in CreateShippingCommands : StartCreateShipping(s, command)
        \/ CreateShippingSteps(s)
        \/ Settle(s)

SpecConcurrent == InitApp /\ [][NextConcurrent]_vars

(***************************************************************************)
(* Properties of the application layer                                     *)
(***************************************************************************)
\* the collaborator calls an invocation has made, in order
CallNames(p) == [i \in 1..Len(p.calls) |-> p.calls[i].call]

NoCallRejected(p) == \A i \in 1..Len(p.calls) : p.calls[i].state # "rejected"

DistinctProductIds(lines) ==
    \A i, j \in 1..Len(lines) : lines[i].productId = lines[j].productId => i = j

\* line k cannot follow lines 1..k-1: its product is among them, or the
\* total with it is over the largest Price
Refused(lines, k) ==
    \/ HasProduct(SubSeq(lines, 1, k - 1), lines[k].productId)
    \/ SumLines(SubSeq(lines, 1, k)) > MaxPrice

\* the first line of a validated command that the fold cannot add, or 0
FirstRefused(lines) ==
    IF \E k \in 1..Len(lines) : Refused(lines, k)
    THEN CHOOSE k \in 1..Len(lines) :
            Refused(lines, k) /\ \A j \in 1..(k - 1) : ~Refused(lines, j)
    ELSE 0

\* the message addOrderLine gives for the refused line k
RefusalMessage(lines, k) ==
    IF HasProduct(SubSeq(lines, 1, k - 1), lines[k].productId)
    THEN "duplicate_product"
    ELSE "unknown_update_error"

PlaceOrderCalls == <<"orderRepository.save", "eventBus.publish">>
CreateShippingCalls ==
    <<"orderRepository.findById", "shippingRepository.findByOrderId",
      "shippingRepository.save">>

C12_FoldStopsAtFirstFailure ==
    \A s \in Slots :
        LET p == procs[s]
            k == FirstRefused(p.cmd.lines)
        IN  (p.kind = "place" /\ p.stage >= 2) =>
                IF k = 0
                THEN p.applied = Len(p.cmd.lines)
                ELSE /\ p.applied = k
                     /\ p.task = left(businessRuleViolation(RefusalMessage(p.cmd.lines, k)))
                     /\ p.calls = <<>>
                     /\ DOMAIN orders = p.atStart.orders
                     /\ Len(published) = p.atStart.published

C12_Witness ==
    \E s \in Slots :
        /\ procs[s].kind = "place"
        /\ Settled(procs[s])
        /\ Len(procs[s].cmd.lines) = 3
        /\ procs[s].cmd.lines[1].productId = procs[s].cmd.lines[2].productId
        /\ procs[s].cmd.lines[3].productId # procs[s].cmd.lines[1].productId
        /\ procs[s].applied = 2
        /\ procs[s].task.type = "left"
        /\ procs[s].task.value.message = "duplicate_product"

\* what the k-th collaborator call of an invocation resolved to
Resolution(p, k) == p.calls[k].result

\* the invocation's call of orderRepository.findById has resolved
OrderLookedUp(p) ==
    p.kind = "ship" /\ Len(p.calls) >= 1 /\ p.calls[1].state = "resolved"

\* the invocation's call of shippingRepository.findByOrderId has resolved
ShippingLookedUp(p) ==
    p.kind = "ship" /\ Len(p.calls) >= 2 /\ p.calls[2].state = "resolved"

\* the stored shipments of an order
ShipmentsOf(orderId) == {id \in DOMAIN shippings : shippings[id].orderId = orderId}

\* C13: when orderRepository.findById resolves to null the create-shipment
\* handler resolves to left not_found and the shipping repository is never
\* called, neither findByOrderId nor save.
C13_AbsentOrderNotFound ==
    \A s \in Slots :
        LET p == procs[s]
        IN  (OrderLookedUp(p) /\ ~Resolution(p, 1).found) =>
                /\ CallNames(p) = <<"orderRepository.findById">>
                /\ p.stage >= 2 =>
                      /\ p.task.type = "left"
                      /\ p.task.value.type = "not_found"
                      /\ p.task.value.message = "order_not_found"
                /\ DOMAIN shippings = p.atStart.shippings

C13_Witness ==
    \E s \in Slots :
        /\ OrderLookedUp(procs[s])
        /\ ~Resolution(procs[s], 1).found
        /\ Settled(procs[s])
        /\ procs[s].task.value.type = "not_found"

\* C14: shipment creation succeeds only while the stored order is Paid: when
\* findById resolves to an order that is Draft, Placed or Cancelled the
\* handler resolves to left business_rule_violation, nothing more is called
\* and no shipment is saved; a right is reached only for a Paid order.
C14_ShipmentNeedsPaidOrder ==
    \A s \in Slots :
        LET p == procs[s]
        IN  /\ (OrderLookedUp(p) /\ Resolution(p, 1).found
                  /\ Resolution(p, 1).value.status.type \in {"draft", "placed", "cancelled"}) =>
                    /\ CallNames(p) = <<"orderRepository.findById">>
                    /\ p.stage >= 3 => p.task = left(businessRuleViolation("order_not_paid"))
                    /\ Settled(p) => p.task.value.type = "business_rule_violation"
                    /\ DOMAIN shippings = p.atStart.shippings
            /\ (p.kind = "ship" /\ Settled(p) /\ p.task.type = "right") =>
                    /\ OrderLookedUp(p)
                    /\ Resolution(p, 1).found
                    /\ Resolution(p, 1).value.status.type = "paid"

C14_Witness ==
    \E s \in Slots :
        /\ OrderLookedUp(procs[s])
        /\ Resolution(procs[s], 1).found
        /\ Resolution(procs[s], 1).value.status.type = "cancelled"
        /\ Settled(procs[s])
        /\ procs[s].task.value.type = "business_rule_violation"

\* C15: with create-shipment invocations run one after the other against
\* the in-memory repositories, at most one shipment is stored for any order
\* id; an invocation with a valid command for an order that already has a
\* shipment resolves to left business_rule_violation and does not call save.
C15_OneShipmentPerOrder ==
    /\ \A orderId \in CommandOrderIds : Cardinality(ShipmentsOf(orderId)) <= 1
    /\ \A s \in Slots :
          LET p == procs[s]
          IN  (/\ p.kind = "ship"
               /\ CreateShippingCommandSchemaParse(p.cmd).success
               /\ \E id \in p.atStart.shippings : shippings[id].orderId = p.cmd.orderId) =>
                  /\ \A i \in 1..Len(p.calls) : p.calls[i].call # "shippingRepository.save"
                  /\ DOMAIN shippings = p.atStart.shippings
                  /\ ShippingLookedUp(p) => Resolution(p, 2).found
                  /\ p.stage >= 5 => p.task = left(businessRuleViolation("shipping_exists"))
                  /\ Settled(p) => p.task.value.type = "business_rule_violation"

C15_Witness ==
    \E s \in Slots :
        /\ procs[s].kind = "ship"
        /\ procs[s].n = 2
        /\ Settled(procs[s])
        /\ procs[s].task.type = "left"
        /\ procs[s].task.value.message = "shipping_exists"
        /\ Cardinality(ShipmentsOf(procs[s].cmd.orderId)) = 1

\* C16: a create-shipment invocation that resolves to a right found the
\* order Paid and without a shipment and met no collaborator fault; it saved
\* exactly one shipment, Pending and with the command's orderId, address
\* and method, and the right holds the id of the saved shipment.
C16_CreateShippingSuccess ==
    \A s \in Slots :
        LET p == procs[s]
        IN  (p.kind = "ship" /\ Settled(p) /\ p.task.type = "right") =>
                /\ NoCallRejected(p)
                /\ CallNames(p) = CreateShippingCalls
                /\ Resolution(p, 1).found
                /\ Resolution(p, 1).value.status.type = "paid"
                /\ ~Resolution(p, 2).found
                /\ LET saved == p.calls[3].arg
                   IN  /\ saved.status.type = "pending"
                       /\ saved.orderId = p.cmd.orderId
                       /\ saved.shippingAddress = p.cmd.shippingAddress
                       /\ saved.method = p.cmd.method
                       /\ saved.id \notin p.atStart.shippings
                       /\ DOMAIN shippings = p.atStart.shippings \cup {saved.id}
                       /\ shippings[saved.id] = saved
                       /\ p.task.value = saved.id

C16_Witness ==
    \E s \in Slots :
        /\ procs[s].kind = "ship"
        /\ Settled(procs[s])
        /\ procs[s].task.type = "right"
        /\ procs[s].cmd.method = "express"
        /\ procs[s].task.value \in DOMAIN shippings
        /\ shippings[procs[s].task.value].method = "express"

\* the calls a handler makes, in the order of its chain
ExpectedCalls(kind) == IF kind = "place" THEN PlaceOrderCalls ELSE CreateShippingCalls

\* C17: every invocation of the two handlers resolves to a left or a right
\* and never rejects: whichever collaborator call rejects
\* (orderRepository.findById, shippingRepository.findByOrderId, save,
\* publish), the handler resolves to left repository_error carrying the
\* reason of that rejection as cause.
C17_NoFaultEscapes ==
    \A s \in Slots :
        LET p == procs[s]
            n == Len(p.calls)
        IN  /\ p.task.type # "rejected"
            /\ Settled(p) => p.task.type \in {"left", "right"}
            /\ \A i \in 1..n :
                  p.calls[i].state = "rejected" =>
                      /\ i = n
                      /\ p.task.type = "left"
                      /\ p.task.value.type = "repository_error"
                      /\ p.task.value.cause = p.calls[i].result
                      /\ p.calls[i].result \in Faults

C17_Witness ==
    \E s \in Slots :
        /\ procs[s].kind = "ship"
        /\ Settled(procs[s])
        /\ Len(procs[s].calls) = 2
        /\ procs[s].calls[2].state = "rejected"
        /\ procs[s].task.value.type = "repository_error"
        /\ procs[s].task.value.cause = "timeout"

\* C18: a rejection of eventBus.publish in the place-order handler is not
\* swallowed: the handler resolves to left repository_error with the reason
\* of the rejection as cause, and never to a right.
C18_PublishFaultSurfaces ==
    \A s \in Slots :
        LET p == procs[s]
        IN  (/\ p.kind = "place"
             /\ Len(p.calls) = 2
             /\ p.calls[2].call = "eventBus.publish"
             /\ p.calls[2].state = "rejected") =>
                /\ Settled(p)
                /\ p.task.type = "left"
                /\ p.task.value.type = "repository_error"
                /\ p.task.value.message = "event_publish_failed"
                /\ p.task.value.cause = p.calls[2].result

C18_Witness ==
    \E s \in Slots :
        /\ procs[s].kind = "place"
        /\ Settled(procs[s])
        /\ Len(procs[s].calls) = 2
        /\ procs[s].calls[1].state = "resolved"
        /\ procs[s].calls[2].state = "rejected"
        /\ procs[s].task.value.message = "event_publish_failed"
        /\ procs[s].task.value.cause = "connection_lost"

\* C19: within one invocation the collaborator calls are made in chain
\* order, each at most once and each only after the one before it has
\* resolved successfully: save then publish for place-order; findById,
\* findByOrderId, save for create-shipment. At most one call is in flight,
\* and the invocation waits for it.
C19_CallsInChainOrder ==
    \A s \in Slots :
        LET p == procs[s]
            n == Len(p.calls)
        IN  p.kind # "idle" =>
                /\ n <= Len(ExpectedCalls(p.kind))
                /\ CallNames(p) = SubSeq(ExpectedCalls(p.kind), 1, n)
                /\ \A i \in 1..(n - 1) : p.calls[i].state = "resolved"
                /\ p.awaiting <=> (n > 0 /\ p.calls[n].state = "pending")

C19_Witness ==
    \E s \in Slots :
        /\ procs[s].kind = "ship"
        /\ CallNames(procs[s]) = CreateShippingCalls
        /\ procs[s].calls[2].state = "resolved"
        /\ procs[s].calls[3].state = "pending"
        /\ procs[s].awaiting

\* C20: there is no concurrent-mutation control: when two create-shipment
\* invocations for the same order interleave and both resolve to a right,
\* both saw no shipment for the order, both called save, their shipment ids
\* differ and both shipments are stored for the one order.
C20_RaceStoresTwoShipments ==
    \A s, t \in Slots :
        LET p == procs[s]
            q == procs[t]
        IN  (/\ s # t
             /\ p.kind = "ship" /\ Settled(p) /\ p.task.type = "right"
             /\ q.kind = "ship" /\ Settled(q) /\ q.task.type = "right"
             /\ p.cmd.orderId = q.cmd.orderId) =>
                /\ ~Resolution(p, 2).found
                /\ ~Resolution(q, 2).found
                /\ p.calls[3].call = "shippingRepository.save"
                /\ q.calls[3].call = "shippingRepository.save"
                /\ p.task.value # q.task.value
                /\ {p.task.value, q.task.value} \subseteq ShipmentsOf(p.cmd.orderId)
                /\ shippingsByOrder[p.cmd.orderId] \in {p.task.value, q.task.value}

C20_Witness ==
    /\ \A s \in Slots :
          /\ procs[s].kind = "ship"
          /\ Settled(procs[s])
          /\ procs[s].task.type = "right"
          /\ procs[s].cmd.orderId = "o3"
    /\ Cardinality(ShipmentsOf("o3")) = 2

(***************************************************************************)
(* Properties of the validators, value objects and helpers                 *)
(***************************************************************************)
\* the aggregate validator accepts the snapshot as it is
ValidOrder(o) == OrderSchemaParse(o).success /\ OrderSchemaParse(o).data = o
ValidShipping(s) == ShippingSchemaParse(s).success /\ ShippingSchemaParse(s).data = s

\* C21: always valid by construction: every snapshot a factory or a
\* successful transition function returns satisfies its aggregate
\* validator, so every order and shipment reached by these calls is
\* schema-valid; a snapshot that fails re-validation is reported as a
\* failure and the caller keeps the snapshot it had.
C21_AlwaysValid ==
    /\ \A o \in FreshOrders : ValidOrder(o)
    /\ \A s \in FreshShippings : ValidShipping(s)
    /\ ValidOrder(order)
    /\ ValidShipping(shipping)
    /\ orderRes.success => ValidOrder(orderRes.value)
    /\ shipRes.success => ValidShipping(shipRes.value)
    /\ (/\ orderOp = "addOrderLine"
        /\ orderArg.status.type = "draft"
        /\ ~HasProduct(orderArg.lines, orderLine.productId)
        /\ ~OrderLineSchemaValid(orderLine)) =>
            /\ ~orderRes.success
            /\ order = orderArg

C21_Witness ==
    /\ orderOp = "addOrderLine"
    /\ orderArg.status.type = "draft"
    /\ ~OrderLineSchemaValid(orderLine)
    /\ ~orderRes.success
    /\ orderRes.error = "invalid_line"
    /\ ValidOrder(order)

(***************************************************************************)
(* Single calls of the validators, smart constructors and helpers          *)
(***************************************************************************)
\* a call leaves the aggregates, the pipeline and the application alone
CallFrame == UNCHANGED <<now, orderVars, shipVars, chainVars, appVars>>

\* a payload value for each key a status may carry
PayloadValue(f) ==
    CASE f \in {"reason"} -> "text"
      [] f \in {"trackingNumber"} -> "JP000000001"
      [] OTHER -> 0

\* every status object with a tag out of `tags` and any of the keys `fields`
StatusCandidates(tags, fields) ==
    {[f \in keys \cup {"type"} |-> IF f = "type" THEN tag ELSE PayloadValue(f)] :
        tag \in tags, keys \in SUBSET fields}

OrderStatusCandidates ==
    StatusCandidates(OrderStatusTags \cup {"shipped"},
                     {"placedAt", "paidAt", "cancelledAt", "reason"})

ShippingStatusCandidates ==
    StatusCandidates(ShippingStatusTags \cup {"placed"},
                     {"shippedAt", "trackingNumber", "deliveredAt", "failedAt", "reason"})

ParseOrderStatus ==
    \E s \in OrderStatusCandidates :
        /\ fnOp' = "OrderStatusSchema"
        /\ fnArg' = s
        /\ fnRes' = OrderStatusSchemaParse(s)
        /\ CallFrame

ParseShippingStatus ==
    \E s \in ShippingStatusCandidates :
        /\ fnOp' = "ShippingStatusSchema"
        /\ fnArg' = s
        /\ fnRes' = ShippingStatusSchemaParse(s)
        /\ CallFrame

\* numbers handed to createPrice, in half cents: around 0 and around 999,999.99
PriceCallInputs == (-3..5) \cup ((MaxPrice - 4)..(MaxPrice + 3))

CallCreatePrice ==
    \E p \in PriceCallInputs :
        /\ fnOp' = "createPrice"
        /\ fnArg' = p
        /\ fnRes' = createPrice(p)
        /\ CallFrame

\* the functions handed to taskEither.map and the eithers its task resolves to
MapFunctions == [ChainValues -> ChainValues]
MapEithers == {left(e) : e \in ChainValues} \cup {right(a) : a \in ChainValues}

CallMap ==
    \E either \in MapEithers, f \in MapFunctions :
        /\ fnOp' = "map"
        /\ fnArg' = [either |-> either, f |-> f]
        /\ fnRes' = map(either, f)
        /\ CallFrame

\* the promises handed to taskEither.fromPromise and the mappers from
\* reasons to errors
ResolvedPromises == {resolved(a) : a \in ChainValues}
RejectedPromises == {faulted(r) : r \in Faults}
RejectMappers == [Faults -> {"unavailable", "retry_later"}]

CallFromPromise ==
    \E onReject \in RejectMappers :
        \/ \E promise \in ResolvedPromises :
              /\ fnOp' = "fromPromise"
              /\ fnArg' = [promise |-> promise, onReject |-> onReject]
              /\ fnRes' = fromPromise(promise, onReject)
              /\ CallFrame
        \/ \E promise \in RejectedPromises :
              /\ fnOp' = "fromPromise"
              /\ fnArg' = [promise |-> promise, onReject |-> onReject]
              /\ fnRes' = fromPromise(promise, onReject)
              /\ CallFrame

\* the arguments of the two factories: the id is the one createOrderId /
\* createShippingId generates, t the clock reading
FactoryCustomerIds == {"c1", "c2"}
FactoryOrderIds == {"o1", "o2"}

CallCreateOrder ==
    \E id \in FactoryOrderIds, c \in FactoryCustomerIds, t \in 0..MaxClock :
        /\ fnOp' = "createOrder"
        /\ fnArg' = [id |-> id, customerId |-> c, t |-> t]
        /\ fnRes' = createOrder(id, c, t)
        /\ CallFrame

CallCreateShipping ==
    \E id \in ShippingIds, o \in FactoryOrderIds, a \in CommandAddresses,
       m \in ShippingMethods, t \in 0..MaxClock :
        /\ fnOp' = "createShipping"
        /\ fnArg' = [id |-> id, orderId |-> o, shippingAddress |-> a,
                     method |-> m, t |-> t]
        /\ fnRes' = createShipping(id, o, a, m, t)
        /\ CallFrame

\* numbers handed to createQuantity: around 0 and around 9999, whole or not
QuantityCallInputs ==
    [whole : (-2..2) \cup ((MaxQuantity - 1)..(MaxQuantity + 1)), tenths : {0, 5}]

CallCreateQuantity ==
    \E q \in QuantityCallInputs :
        /\ fnOp' = "createQuantity"
        /\ fnArg' = q
        /\ fnRes' = createQuantity(q)
        /\ CallFrame

\* the keys the claim takes the tag of a status to mandate
MandatedFields(op, tag) ==
    IF op = "OrderStatusSchema" THEN OrderStatusFields(tag)
    ELSE ShippingStatusFields(tag)

\* C22 as stated: a status that lacks a field its tag mandates (Shipped
\* without shippedAt or trackingNumber, Delivered without deliveredAt, Placed
\* without placedAt) is rejected by the validator.
C22_AsStated ==
    (/\ fnOp \in {"OrderStatusSchema", "ShippingStatusSchema"}
     /\ fnArg.type \in (IF fnOp = "OrderStatusSchema" THEN OrderStatusTags
                        ELSE ShippingStatusTags)
     /\ ~(MandatedFields(fnOp, fnArg.type) \subseteq DOMAIN fnArg)) =>
        ~fnRes.success

(***************************************************************************)
(* The repositories on their own: snapshots in two versions are saved and  *)
(* looked up in any order; fnRes of a save holds the maps before it        *)
(***************************************************************************)
RepoOrderIds == {"o1", "o2"}
RepoShippingIds == {"s1", "s2"}
RepoOrders ==
    {createOrder(id, "c1", 0) : id \in RepoOrderIds}
    \cup {placeOrder(addOrderLine(createOrder(id, "c1", 0), StoredLine, 0).value, 1).value :
            id \in RepoOrderIds}
RepoShippings ==
    {createShipping(id, "o1", a, "standard", 0).value :
        id \in RepoShippingIds, a \in Addresses}
    \cup {startPreparation(createShipping(id, "o1", a, "standard", 0).value, 1).value :
            id \in RepoShippingIds, a \in Addresses}

SaveOrder ==
    \E o \in RepoOrders :
        /\ orders' = orderRepository_save(orders, o)
        /\ ordersByCustomer' = orderRepository_saveIndex(ordersByCustomer, o)
        /\ fnOp' = "orderRepository.save"
        /\ fnArg' = o
        /\ fnRes' = [orders |-> orders, ordersByCustomer |-> ordersByCustomer]
        /\ UNCHANGED <<now, orderVars, shipVars, chainVars, shippings,
                       shippingsByOrder, published, procs, started>>

FindOrder ==
    \E id \in RepoOrderIds :
        /\ fnOp' = "orderRepository.findById"
        /\ fnArg' = id
        /\ fnRes' = orderRepository_findById(orders, id)
        /\ UNCHANGED <<now, orderVars, shipVars, chainVars, appVars>>

SaveShipping ==
    \E sh \in RepoShippings :
        LET stored == shippingRepository_save(shippings, shippingsByOrder, sh)
        IN  /\ shippings' = stored.shippings
            /\ shippingsByOrder' = stored.shippingsByOrder
            /\ fnOp' = "shippingRepository.save"
            /\ fnArg' = sh
            /\ fnRes' = [shippings |-> shippings, shippingsByOrder |-> shippingsByOrder]
            /\ UNCHANGED <<now, orderVars, shipVars, chainVars, orders,
                           ordersByCustomer, published, procs, started>>

FindShipping ==
    \E id \in RepoShippingIds :
        /\ fnOp' = "shippingRepository.findById"
        /\ fnArg' = id
        /\ fnRes' = shippingRepository_findById(shippings, id)
        /\ UNCHANGED <<now, orderVars, shipVars, chainVars, appVars>>

\* C28: save is idempotent and the last write wins: after save(s),
\* findById(s.id) returns s; saving a stored id replaces the snapshot and adds
\* no entry, the other entries stay; saving the same snapshot again changes
\* nothing; findById of an id never saved returns null.
C28_SaveLastWriteWins ==
    /\ fnOp = "orderRepository.save" =>
          /\ orderRepository_findById(orders, fnArg.id).found
          /\ orderRepository_findById(orders, fnArg.id).value = fnArg
          /\ DOMAIN orders = DOMAIN fnRes.orders \cup {fnArg.id}
          /\ fnArg.id \in DOMAIN fnRes.orders =>
                Cardinality(DOMAIN orders) = Cardinality(DOMAIN fnRes.orders)
          /\ \A k \in DOMAIN fnRes.orders \ {fnArg.id} : orders[k] = fnRes.orders[k]
          /\ orderRepository_save(orders, fnArg) = orders
          /\ orderRepository_saveIndex(ordersByCustomer, fnArg) = ordersByCustomer
    /\ fnOp = "shippingRepository.save" =>
          /\ shippingRepository_findById(shippings, fnArg.id).found
          /\ shippingRepository_findById(shippings, fnArg.id).value = fnArg
          /\ DOMAIN shippings = DOMAIN fnRes.shippings \cup {fnArg.id}
          /\ fnArg.id \in DOMAIN fnRes.shippings =>
                Cardinality(DOMAIN shippings) = Cardinality(DOMAIN fnRes.shippings)
          /\ \A k \in DOMAIN fnRes.shippings \ {fnArg.id} :
                shippings[k] = fnRes.shippings[k]
          /\ shippingRepository_save(shippings, shippingsByOrder, fnArg)
                = [shippings |-> shippings, shippingsByOrder |-> shippingsByOrder]
    /\ fnOp = "orderRepository.findById" =>
          /\ fnArg \notin DOMAIN orders => ~fnRes.found
          /\ fnArg \in DOMAIN orders => fnRes.found /\ fnRes.value = orders[fnArg]
    /\ fnOp = "shippingRepository.findById" =>
          /\ fnArg \notin DOMAIN shippings => ~fnRes.found
          /\ fnArg \in DOMAIN shippings => fnRes.found /\ fnRes.value = shippings[fnArg]

C28_Witness ==
    /\ fnOp = "orderRepository.save"
    /\ fnArg.id = "o2"
    /\ DOMAIN fnRes.orders = {"o1", "o2"}
    /\ fnRes.orders["o2"].status.type = "placed"
    /\ fnArg.status.type = "draft"
    /\ orders["o2"].status.type = "draft"
    /\ Cardinality(DOMAIN orders) = 2

\* the commands the claim calls failing shape validation: no line or a line
\* without a product name; an address without a city, a postal code
\* without the hyphen at its fourth character, a method outside the three
ShapeInvalid(p) ==
    \/ /\ p.kind = "place"
       /\ \/ Len(p.cmd.lines) = 0
          \/ \E i \in 1..Len(p.cmd.lines) : p.cmd.lines[i].productName = ""
    \/ /\ p.kind = "ship"
       /\ \/ p.cmd.shippingAddress.city = ""
          \/ Len(p.cmd.shippingAddress.postalCode) # 8
          \/ p.cmd.method \notin {"standard", "express", "overnight"}

\* C30: a command that fails shape validation makes the handler resolve to
\* left validation_error at once: no findById, findByOrderId, save or publish
\* call is made, and the repositories and the event bus hold what they held
\* when the handler was called.
C30_InvalidCommandTouchesNothing ==
    \A s \in Slots :
        LET p == procs[s]
        IN  ShapeInvalid(p) =>
                /\ Settled(p)
                /\ p.task.type = "left"
                /\ p.task.value.type = "validation_error"
                /\ Len(p.calls) = 0
                /\ DOMAIN orders = p.atStart.orders
                /\ DOMAIN shippings = p.atStart.shippings
                /\ Len(published) = p.atStart.published

C30_Witness ==
    \E s \in Slots :
        /\ procs[s].kind = "ship"
        /\ procs[s].cmd.orderId = "o3"
        /\ procs[s].cmd.method = "drone"
        /\ AddressSchemaParse(procs[s].cmd.shippingAddress).success
        /\ procs[s].n = 2
        /\ procs[s].task.value.type = "validation_error"
        /\ Len(procs[s].calls) = 0

\* the days the claim names for each method
DeliveryDaysOf(method) ==
    CASE method = "standard" -> 7
      [] method = "express" -> 3
      [] method = "overnight" -> 1

\* C25: a shipment from createShipping has estimatedDeliveryDate - createdAt
\* of exactly 7 days (standard), 3 days (express) or 1 day (overnight), and
\* startPreparation, shipOrder and deliverShipment change neither date.
C25_EstimatedDeliveryDate ==
    /\ \A id \in ShippingIds, a \in Addresses, m \in ShippingMethods, t \in 0..MaxClock :
          LET r == createShipping(id, "o1", a, m, t)
          IN  /\ ~r.threw
              /\ r.value.createdAt = t
              /\ r.value.estimatedDeliveryDate - r.value.createdAt = DeliveryDaysOf(m)
    /\ shipping.estimatedDeliveryDate - shipping.createdAt
          = DeliveryDaysOf(shipping.method)
    /\ (shipOp \in {"startPreparation", "shipOrder", "deliverShipment"}
          /\ shipRes.success) =>
          /\ shipRes.value.estimatedDeliveryDate = shipArg.estimatedDeliveryDate
          /\ shipRes.value.createdAt = shipArg.createdAt

C25_Witness ==
    /\ shipOp = "deliverShipment"
    /\ shipRes.success
    /\ shipping.method = "express"
    /\ shipping.updatedAt > shipping.createdAt
    /\ shipping.estimatedDeliveryDate = shipping.createdAt + 3

\* C26: taskEither.map(f) on a task resolving to right(a) resolves to
\* right(f(a)); on a task resolving to left(e) it resolves to the same left(e)
\* and f is not invoked.
C26_MapTransformsRight ==
    fnOp = "map" =>
        /\ fnArg.either.type = "right" =>
              /\ fnRes.task.type = "right"
              /\ fnRes.task.value = fnArg.f[fnArg.either.value]
        /\ fnArg.either.type = "left" =>
              /\ fnRes.task = fnArg.either
              /\ ~fnRes.invoked

C26_Witness ==
    /\ fnOp = "map"
    /\ fnArg.either = left(1)
    /\ fnArg.f[1] = 2
    /\ fnRes.task = left(1)
    /\ ~fnRes.invoked

\* C27: taskEither.fromPromise(p, onReject) never rejects: when p resolves
\* with a it resolves to right(a) and onReject is not called (a mapper that is
\* defined on no reason gives the same result); when p rejects with reason r
\* it resolves to left(onReject(r)).
C27_FromPromiseNeverRejects ==
    fnOp = "fromPromise" =>
        /\ fnRes.type \in {"left", "right"}
        /\ fnArg.promise.ok =>
              /\ fnRes.type = "right"
              /\ fnRes.value = fnArg.promise.value
              /\ fromPromise(fnArg.promise, <<>>) = fnRes
        /\ ~fnArg.promise.ok =>
              /\ fnRes.type = "left"
              /\ fnRes.value = fnArg.onReject[fnArg.promise.value]

C27_Witness ==
    /\ fnOp = "fromPromise"
    /\ ~fnArg.promise.ok
    /\ fnArg.promise.value = "timeout"
    /\ fnArg.onReject["timeout"] = "retry_later"
    /\ fnArg.onReject["connection_lost"] = "unavailable"
    /\ fnRes.type = "left"
    /\ fnRes.value = "retry_later"

\* C29: createOrder returns a Draft order with no lines, totalAmount 0 and
\* the given customerId; createShipping succeeds for every valid address and
\* each of the three methods, and returns a Pending shipment with the given
\* orderId, address and method.
C29_FactoriesInitialState ==
    /\ fnOp = "createOrder" =>
          /\ fnRes.status = [type |-> "draft"]
          /\ fnRes.lines = <<>>
          /\ fnRes.totalAmount = 0
          /\ fnRes.customerId = fnArg.customerId
    /\ (fnOp = "createShipping"
          /\ AddressSchemaParse(fnArg.shippingAddress).success
          /\ fnArg.method \in {"standard", "express", "overnight"}) =>
          /\ ~fnRes.threw
          /\ fnRes.value.status = [type |-> "pending"]
          /\ fnRes.value.orderId = fnArg.orderId
          /\ fnRes.value.shippingAddress = fnArg.shippingAddress
          /\ fnRes.value.method = fnArg.method

C29_Witness ==
    /\ fnOp = "createOrder"
    /\ fnArg.id = "o1"
    /\ fnArg.customerId = "c2"
    /\ fnRes.customerId = "c2"
    /\ fnRes.status.type = "draft"

\* C23: createPrice(p) succeeds iff 0 <= p <= 999,999.99; its value is then
\* p rounded to 2 decimals (a whole number of cents at most half a cent from
\* p, a half cent going up), and createPrice of that value returns it again;
\* every other number gives a failure with a message.
C23_CreatePrice ==
    fnOp = "createPrice" =>
        /\ fnRes.success <=> (0 <= fnArg /\ fnArg <= MaxPrice)
        /\ fnRes.success =>
              /\ fnRes.value % 2 = 0
              /\ fnRes.value - fnArg \in {0, 1}
              /\ createPrice(fnRes.value) = Ok(fnRes.value)
        /\ ~fnRes.success => fnRes.error \in {"price_negative", "price_too_large"}

C23_Witness ==
    /\ fnOp = "createPrice"
    /\ fnArg = MaxPrice - 1
    /\ fnRes = Ok(MaxPrice)

\* C24: createQuantity(q) succeeds, with value q, iff q is an integer and
\* 1 <= q <= 9999; for 0, a negative, a non-integer or a larger number it
\* returns a failure with a message.
C24_CreateQuantity ==
    fnOp = "createQuantity" =>
        /\ fnRes.success <=>
              (fnArg.tenths = 0 /\ 1 <= fnArg.whole /\ fnArg.whole <= 9999)
        /\ fnRes.success => fnRes.value = fnArg.whole
        /\ ~fnRes.success =>
              fnRes.error \in {"quantity_not_integer", "quantity_not_positive",
                               "quantity_too_large"}

C24_Witness ==
    /\ fnOp = "createQuantity"
    /\ fnArg = [whole |-> 0, tenths |-> 0]
    /\ fnRes = Err("quantity_not_positive")

\* C31: addOrderLine checks the status before the duplicate: a line whose
\* productId is already in an order that is not Draft is refused with the
\* status error, not with the duplicate-product error.
C31_StatusBeforeDuplicate ==
    (/\ orderOp = "addOrderLine"
     /\ orderArg.status.type # "draft"
     /\ \E i \in 1..Len(orderArg.lines) :
           orderArg.lines[i].productId = orderLine.productId) =>
        /\ ~orderRes.success
        /\ orderRes.error = "add_line_requires_draft"
        /\ order = orderArg

C31_Witness ==
    /\ orderOp = "addOrderLine"
    /\ orderArg.status.type = "placed"
    /\ Len(orderArg.lines) = 1
    /\ orderArg.lines[1].productId = orderLine.productId
    /\ orderRes = Err("add_line_requires_draft")

\* C33: lines and totalAmount are frozen once the order has left Draft: a
\* call of addOrderLine, placeOrder or markAsPaid on a Placed or Paid order
\* returns no snapshot with other lines or another total, and the order held
\* after the call has the lines and the total it had before.
C33_FrozenAfterDraft ==
    (/\ orderOp \in {"addOrderLine", "placeOrder", "markAsPaid"}
     /\ orderArg.status.type \in {"placed", "paid"}) =>
        /\ order.lines = orderArg.lines
        /\ order.totalAmount = orderArg.totalAmount
        /\ orderRes.success =>
              /\ orderRes.value.lines = orderArg.lines
              /\ orderRes.value.totalAmount = orderArg.totalAmount

C33_Witness ==
    /\ orderOp = "markAsPaid"
    /\ orderRes.success
    /\ orderArg.status.type = "placed"
    /\ Len(orderArg.lines) = 2
    /\ order.status.type = "paid"
    /\ order.lines = orderArg.lines
    /\ order.totalAmount > 0

\* C34: the total never leaves the Price range: addOrderLine on a Draft
\* order fails and leaves the order unchanged whenever the sum with the new
\* line would exceed 999,999.99, and every order of a lifecycle has
\* 0 <= totalAmount <= 999,999.99.
C34_TotalWithinPriceRange ==
    /\ 0 <= order.totalAmount
    /\ order.totalAmount <= 199999998
    /\ (/\ orderOp = "addOrderLine"
        /\ orderArg.status.type = "draft"
        /\ SumLines(orderArg.lines) + orderLine.unitPrice * orderLine.quantity
             > 199999998) =>
          /\ ~orderRes.success
          /\ order = orderArg

C34_Witness ==
    /\ orderOp = "addOrderLine"
    /\ orderArg.status.type = "draft"
    /\ Len(orderArg.lines) = 1
    /\ orderArg.lines[1].productId # orderLine.productId
    /\ orderArg.totalAmount + orderLine.unitPrice * orderLine.quantity > 199999998
    /\ ~orderRes.success
    /\ order = orderArg

\* C35: the place step of the place-order handler cannot fail: when the fold
\* over the lines of a validated command has succeeded, the order handed to
\* placeOrder is Draft with at least one line and placeOrder accepts it; no
\* invocation ends in a business_rule_violation of placeOrder, and a command
\* without lines ends in validation_error.
C35_PlaceStepNeverFails ==
    \A s \in Slots :
        LET p == procs[s]
        IN  p.kind = "place" =>
                /\ (p.stage = 2 /\ p.task.type = "right") =>
                      /\ p.task.value.status.type = "draft"
                      /\ Len(p.task.value.lines) >= 1
                      /\ placeOrder(p.task.value, now).success
                /\ (p.stage >= 2 /\ p.task.type = "left"
                      /\ p.task.value.type = "business_rule_violation") =>
                      p.task.value.message \notin
                          {"place_requires_draft", "place_requires_lines"}
                /\ Len(p.cmd.lines) = 0 =>
                      /\ p.stage = 0
                      /\ p.task.type = "left"
                      /\ p.task.value.type = "validation_error"

C35_Witness ==
    \E s \in Slots :
        /\ procs[s].kind = "place"
        /\ procs[s].stage = 3
        /\ procs[s].task.type = "right"
        /\ procs[s].task.value.status.type = "placed"
        /\ Len(procs[s].task.value.lines) = 2
        /\ procs[s].applied = 2

\* the status of what a transition call returns, "none" for a failure
ResultStatus(r) == IF r.success THEN r.value.status.type ELSE "none"

\* the factories return Draft and Pending, and no transition function takes
\* a valid snapshot that is not Cancelled (not Failed) to one that is
NoTransitionCancelsOrFails ==
    /\ \A o \in FreshOrders : o.status.type = "draft"
    /\ \A sh \in FreshShippings : sh.status.type = "pending"
    /\ \A o \in {x \in AnyOrders : x.status.type # "cancelled"}, t \in 0..MaxClock :
          /\ ResultStatus(placeOrder(o, t)) # "cancelled"
          /\ ResultStatus(markAsPaid(o, t)) # "cancelled"
          /\ \A line \in OrderLines : ResultStatus(addOrderLine(o, line, t)) # "cancelled"
    /\ \A sh \in {x \in AnyShippings : x.status.type # "failed"}, t \in 0..MaxClock :
          /\ ResultStatus(startPreparation(sh, t)) # "failed"
          /\ ResultStatus(deliverShipment(sh, t)) # "failed"
          /\ \A tn \in TrackingNumbers : ResultStatus(shipOrder(sh, t, tn)) # "failed"

\* C36: Cancelled and Failed are unreachable: the factories return Draft and
\* Pending, no transition function called on an order that is not Cancelled
\* returns a Cancelled one, none called on a shipment that is not Failed
\* returns a Failed one, and the handlers save only Placed orders and Pending
\* shipments; an order that is Cancelled in the repository was stored there
\* before any invocation and is untouched.
C36_CancelledFailedUnreachable ==
    /\ NoTransitionCancelsOrFails
    /\ \A id \in DOMAIN orders :
          IF id \in {"o1", "o2", "o3", "o4"}
          THEN orders[id] = StoredOrders[id]
          ELSE orders[id].status.type = "placed"
    /\ \A id \in DOMAIN shippings : shippings[id].status.type = "pending"

C36_Witness ==
    /\ \E id \in DOMAIN orders : id \notin {"o1", "o2", "o3", "o4"}
    /\ \E id \in DOMAIN shippings : shippings[id].orderId = "o3"
    /\ "o4" \in DOMAIN orders
    /\ orders["o4"].status.type = "cancelled"

\* C37: the create-shipment handler never publishes and only reads the order
\* repository: whatever the outcome of an invocation, none of its calls is
\* eventBus.publish or orderRepository.save, the event bus holds the events
\* it held when the handler was called, and the order repository the orders
\* it held.
C37_CreateShippingNeverPublishes ==
    \A s \in Slots :
        LET p == procs[s]
        IN  p.kind = "ship" =>
                /\ \A i \in 1..Len(p.calls) :
                      p.calls[i].call \in
                          {"orderRepository.findById", "shippingRepository.findByOrderId",
                           "shippingRepository.save"}
                /\ Len(published) = p.atStart.published
                /\ DOMAIN orders = p.atStart.orders
                /\ \A id \in {"o1", "o2", "o3", "o4"} : orders[id] = StoredOrders[id]

C37_Witness ==
    \E s \in Slots :
        /\ procs[s].kind = "ship"
        /\ procs[s].n = 2
        /\ Settled(procs[s])
        /\ procs[s].task.type = "right"
        /\ Len(procs[s].calls) = 3
        /\ procs[s].atStart.published = 1
        /\ Len(published) = 1

\* C38: place-order has no rollback: when save has resolved and publish is
\* rejected, the handler resolves to left repository_error and the Placed
\* order stays in the order repository; every published order_placed event
\* is for an order that is stored, and when the handler resolves to
\* right(id) the order with that id is stored.
C38_NoRollback ==
    /\ \A s \in Slots :
          LET p == procs[s]
          IN  p.kind = "place" =>
                /\ (/\ Len(p.calls) = 2
                    /\ p.calls[2].call = "eventBus.publish"
                    /\ p.calls[2].state = "rejected") =>
                      /\ p.calls[1].call = "orderRepository.save"
                      /\ p.calls[1].state = "resolved"
                      /\ p.task.type = "left"
                      /\ p.task.value.type = "repository_error"
                      /\ p.calls[1].arg.id \in DOMAIN orders
                      /\ orders[p.calls[1].arg.id] = p.calls[1].arg
                      /\ orders[p.calls[1].arg.id].status.type = "placed"
                      /\ Len(published) = p.atStart.published
                /\ (Settled(p) /\ p.task.type = "right") =>
                      /\ p.task.value \in DOMAIN orders
                      /\ orders[p.task.value].status.type = "placed"
    /\ \A i \in 1..Len(published) :
          /\ published[i].aggregateId \in DOMAIN orders
          /\ orders[published[i].aggregateId].status.type = "placed"
          /\ orders[published[i].aggregateId].totalAmount = published[i].totalAmount

C38_Witness ==
    \E s \in Slots :
        /\ procs[s].kind = "place"
        /\ Settled(procs[s])
        /\ Len(procs[s].calls) = 2
        /\ procs[s].calls[2].state = "rejected"
        /\ procs[s].task.value.type = "repository_error"
        /\ procs[s].calls[1].arg.id \in DOMAIN orders
        /\ orders[procs[s].calls[1].arg.id].status.type = "placed"
        /\ Len(published) = 0

\* C39: in every shipment reachable from createShipping a tracking number is
\* present iff the status is Shipped: shipOrder puts the generated number on
\* the Preparing -> Shipped step, Pending and Preparing snapshots carry none,
\* and deliverShipment leaves a Delivered status of type and deliveredAt only.
C39_TrackingNumberIffShipped ==
    /\ ("trackingNumber" \in DOMAIN shipping.status) <=> shipping.status.type = "shipped"
    /\ shipping.status.type \in {"pending", "preparing"} =>
          DOMAIN shipping.status = {"type"}
    /\ shipping.status.type = "shipped" =>
          shipping.status.trackingNumber \in TrackingNumbers
    /\ shipping.status.type = "delivered" =>
          DOMAIN shipping.status = {"type", "deliveredAt"}
    /\ (shipOp = "shipOrder" /\ shipRes.success) =>
          /\ shipArg.status.type = "preparing"
          /\ "trackingNumber" \notin DOMAIN shipArg.status
          /\ shipRes.value.status.type = "shipped"
          /\ "trackingNumber" \in DOMAIN shipRes.value.status
    /\ (shipOp = "deliverShipment" /\ shipRes.success) =>
          /\ "trackingNumber" \in DOMAIN shipArg.status
          /\ DOMAIN shipRes.value.status = {"type", "deliveredAt"}
          /\ shipRes.value.status.deliveredAt = shipRes.value.updatedAt

C39_Witness ==
    /\ shipOp = "deliverShipment"
    /\ shipRes.success
    /\ shipArg.status.type = "shipped"
    /\ shipArg.status.trackingNumber = "JP999999999"
    /\ shipping.status.type = "delivered"
    /\ "trackingNumber" \notin DOMAIN shipping.status

\* C40: every invocation of the place-order and create-shipping handlers
\* eventually resolves when every collaborator call it makes eventually
\* settles: the fold applies addOrderLine at most once per command line,
\* place-order makes at most 2 collaborator calls and create-shipping at
\* most 3, and no call is made twice.
MaxCalls(kind) == IF kind = "place" THEN 2 ELSE 3

BoundedWork(p) ==
    /\ Len(p.calls) <= MaxCalls(p.kind)
    /\ \A i, j \in 1..Len(p.calls) : p.calls[i].call = p.calls[j].call => i = j
    /\ p.kind = "place" /\ p.stage > 0 => p.applied <= Len(p.cmd.lines)

\* the steps an invocation still has before it: 0 exactly when it is settled
StepsLeft(p) ==
    IF p.kind = "idle" \/ p.stage = 0 THEN 0
    ELSE 2 * (LastStage(p.kind) - p.stage) + (IF p.awaiting THEN 1 ELSE 0)

\* the invocation in slot s took a step
Stepped(s) ==
    \/ procs'[s].stage # procs[s].stage
    \/ procs'[s].awaiting # procs[s].awaiting
    \/ Len(procs'[s].calls) # Len(procs[s].calls)

\* a running invocation is never stuck: its next continuation is ready, or
\* the call it waits for can settle
CanStep(s) ==
    LET p == procs[s]
    IN  IF p.awaiting THEN ENABLED Settle(s)
        ELSE IF p.kind = "place"
        THEN \/ p.stage = 1     \* the fold is total: PlaceAddLines has no other guard
             \/ p.stage = 2 /\ ENABLED PlacePlaceOrder(s)
             \/ p.stage = 3 /\ ENABLED PlaceSave(s)
             \/ p.stage = 4 /\ ENABLED PlacePublish(s)
        ELSE \/ p.stage = 1 /\ ENABLED ShipCheckOrder(s)
             \/ p.stage = 2 /\ ENABLED ShipCheckPaid(s)
             \/ p.stage = 3 /\ ENABLED ShipFindExisting(s)
             \/ p.stage = 4 /\ ENABLED ShipCheckDuplicate(s)
             \/ p.stage = 5 /\ ENABLED ShipCreate(s)
             \/ p.stage = 6 /\ ENABLED ShipSave(s)

C40_HandlersResolve ==
    /\ [](\A s \in Slots : procs[s].kind # "idle" => BoundedWork(procs[s]))
    /\ [](\A s \in Slots : Running(s) => StepsLeft(procs[s]) > 0 /\ CanStep(s))
    /\ [](\A s \in Slots : Settled(procs[s]) => StepsLeft(procs[s]) = 0)
    /\ [][\A s \in Slots : Running(s) /\ Stepped(s) =>
              /\ procs'[s].n = procs[s].n
              /\ StepsLeft(procs'[s]) < StepsLeft(procs[s])]_vars

C40_Witness ==
    \E s \in Slots :
        /\ procs[s].kind = "ship"
        /\ Settled(procs[s])
        /\ Len(procs[s].calls) = 3
        /\ procs[s].calls[3].state = "rejected"
        /\ started = MaxInvocations

\* C32: a transition never changes the identity fields: a successful order
\* call keeps id, customerId and createdAt, a successful shipment call keeps
\* id, orderId, shippingAddress, method and createdAt; placeOrder, markAsPaid,
\* startPreparation, shipOrder and deliverShipment change nothing but status
\* and updatedAt, so every snapshot of a lifecycle carries the identity it
\* was created with.
C32_IdentityFieldsKept ==
    /\ (orderOp \in {"addOrderLine", "placeOrder", "markAsPaid"} /\ orderRes.success) =>
          /\ orderRes.value.id = orderArg.id
          /\ orderRes.value.customerId = orderArg.customerId
          /\ orderRes.value.createdAt = orderArg.createdAt
    /\ (orderOp \in {"placeOrder", "markAsPaid"} /\ orderRes.success) =>
          /\ DOMAIN orderRes.value = DOMAIN orderArg
          /\ \A f \in DOMAIN orderArg \ {"status", "updatedAt"} :
                orderRes.value[f] = orderArg[f]
    /\ (shipOp \in {"startPreparation", "shipOrder", "deliverShipment"}
          /\ shipRes.success) =>
          /\ DOMAIN shipRes.value = DOMAIN shipArg
          /\ \A f \in DOMAIN shipArg \ {"status", "updatedAt"} :
                shipRes.value[f] = shipArg[f]
    /\ orderOp # "given" => order.createdAt = 0 /\ order \in
          {[o EXCEPT !.lines = order.lines, !.status = order.status,
                     !.totalAmount = order.totalAmount,
                     !.updatedAt = order.updatedAt] : o \in FreshOrders}
    /\ shipOp # "given" => shipping.createdAt = 0 /\ shipping \in
          {[s EXCEPT !.status = shipping.status,
                     !.updatedAt = shipping.updatedAt] : s \in FreshShippings}

C32_Witness ==
    /\ orderOp = "markAsPaid"
    /\ orderRes.success
    /\ orderArg.createdAt = 0
    /\ orderArg.updatedAt = 1
    /\ now = 1
    /\ order.status.type = "paid"
    /\ order.createdAt = 0

(***************************************************************************)
(* Specification of the single calls                                       *)
(***************************************************************************)
InitFunctions ==
    /\ now = 0
    /\ StartWithOrder(IdleOrder, "given")
    /\ StartWithShipping(IdleShipping, "given")
    /\ IdleChain
    /\ IdleApp

NextFunctions ==
    \/ ParseOrderStatus
    \/ ParseShippingStatus
    \/ CallCreatePrice
    \/ CallCreateQuantity
    \/ CallMap
    \/ CallFromPromise
    \/ CallCreateOrder
    \/ CallCreateShipping

SpecFunctions == InitFunctions /\ [][NextFunctions]_vars

\* the repositories on their own, from empty maps
NextRepositories ==
    \/ SaveOrder
    \/ FindOrder
    \/ SaveShipping
    \/ FindShipping

SpecRepositories == InitFunctions /\ [][NextRepositories]_vars

\* both lifecycles with the clock: one aggregate runs from its factory while
\* the other is held at a terminal snapshot
InitLifecycles ==
    /\ now = 0
    /\ \/ InitOrder /\ StartWithShipping(IdleShipping, "given")
       \/ StartWithOrder(IdleOrder, "given") /\ InitShipping
    /\ IdleChain
    /\ IdleApp

NextLifecycles ==
    \/ AddOrderLine
    \/ PlaceOrder
    \/ MarkAsPaid
    \/ StartPreparation
    \/ ShipOrder
    \/ DeliverShipment
    \/ Tick

SpecLifecycles == InitLifecycles /\ [][NextLifecycles]_vars

\* the handlers under the event loop: a continuation that is ready runs, and
\* every collaborator promise settles
\* how far each invocation has come: every step of a handler changes it
progress ==
    <<[s \in Slots |-> procs[s].stage], [s \in Slots |-> procs[s].awaiting]>>

SpecLive ==
    /\ InitApp
    /\ [][NextFaults]_vars
    /\ WF_progress(PlaceOrderSteps(1) \/ CreateShippingSteps(1))
    /\ WF_progress(Settle(1))

====
